---- MODULE Spec2Model ----
(***************************************************************************)
(* Retrieval-and-serving pipeline of the document bot: the NumPy-backed    *)
(* DocumentStore (src/src/document_store_simple.py), the FAISS-backed      *)
(* DocumentStore (src/src/document_store.py), the CacheManager             *)
(* (src/utils/cache_manager.py), the RetryHandler                          *)
(* (src/utils/retry_handler.py) and the query path of                      *)
(* UniversityDocumentBot.handle_message (src/src/bot_simple.py).           *)
(*                                                                         *)
(* Conventions.  Python list positions are 0-based; the sequences below    *)
(* are 1-based, so model position p is Python index p-1.  Every call       *)
(* records itself in `op` and its return value (or the error it raised)    *)
(* in `ret`.  Each component has its own specification (SpecStore,         *)
(* SpecFiles, SpecCache, SpecCacheFiles, SpecCachePair, SpecRetry,         *)
(* SpecClient, SpecRouter, SpecCosine, SpecChunks, SpecIndexed,            *)
(* SpecConversation, SpecConversationCalls, SpecBot, SpecWaiting,          *)
(* SpecRequests); each leaves the variables of the other components at     *)
(* their initial value.                                                    *)
(***************************************************************************)
EXTENDS Integers, Sequences, FiniteSets, TLC

VARIABLES
    documents,    \* DocumentStore.documents: the list of document records
    user_index,   \* DocumentStore.user_index: user_id -> list of positions
    metadata,     \* contents of metadata.json
    files,        \* the <document_id>.txt files: document_id -> full text
    nextId,       \* stands for uuid.uuid4(): the next fresh document id
    cache,        \* the cache directory: key -> contents of <key>.json
    now,          \* time.time()
    history,      \* ConversationManager.conversations: user_id -> turns
    user_data,    \* the transport's context.user_data of each user
    routed,       \* an earlier route call kept for comparison, or None
    inflight,     \* the handle_message calls of questions, by request
    rt,           \* the state of one exponential_backoff wrapper call
    op,           \* the last call made, with its arguments
    ret           \* what that call returned or raised

vars == <<documents, user_index, metadata, files, nextId, cache, now,
          history, user_data, routed, inflight, rt, op, ret>>

storeVars == <<documents, user_index, metadata, files, nextId>>
botVars == <<history, user_data, routed, inflight>>

\* ------------------------------------------------------------ bounds

\* Documents held by the store at one time.
MaxDocs == 2
\* Document ids ever generated.
MaxIds == 3
\* Ticks of the clock in one run.
MaxTicks == 2
\* CacheManager's ttl (a constructor argument), in clock ticks.
TTL == 1
\* Cache files held at one time.
MaxCache == 1
\* The largest max_retries a wrapper is built with.
MaxRetriesBound == 4
\* ConversationManager's max_history (a constructor argument).
MaxHistory == 1
\* The messages one user sends in the conversation runs.
MaxTurns == 6

\* time.time() when the process starts: the epoch is further back than ttl.
StartTime == TTL + 1

Users == {1, 2}
Titles == {"t"}
Texts == {"x"}
\* summarize_document's answers
Summaries == {"s"}

\* Embedding vectors: the API's answers.  <<>> is get_embedding's failure
\* value.  The squared norm of each is a perfect square, so that the
\* float32 norm is exact.
Vectors == {<<1, 0>>, <<3, 4>>}
NoEmbedding == <<>>

\* ------------------------------------------------- cosine similarity

Dot(a, b) == a[1] * b[1] + a[2] * b[2]

\* np.linalg.norm: the root of the sum of squares.
Norm(v) == CHOOSE r \in 0..(Dot(v, v)) : r * r = Dot(v, v)

\* A similarity is the fraction num/den with den > 0.
Frac(n, d) == [num |-> n, den |-> d]
FracGE(s, t) == s.num * t.den >= t.num * s.den
FracGT(s, t) == s.num * t.den > t.num * s.den
FracEQ(s, t) == s.num * t.den = t.num * s.den

\* DocumentStore._cosine_similarity
CosineSimilarity(vec1, vec2) ==
    IF Norm(vec1) = 0 \/ Norm(vec2) = 0
    THEN Frac(0, 1)
    ELSE Frac(Dot(vec1, vec2), Norm(vec1) * Norm(vec2))

Thresholds == {Frac(0, 1), Frac(1, 1)}
TopKs == {1, 2}

\* ----------------------------------------------------- DocumentStore

\* What a call gives back: a value, None, or an error raised.
Returned(v) == [value |-> v]
None == [none |-> TRUE]
Raised(e) == [error |-> e]

RECURSIVE PositionsOf(_, _, _)
\* _build_user_index's loop from position i on: the positions, in order, of
\* the documents of user_id.
PositionsOf(docs, i, user_id) ==
    IF i > Len(docs) THEN <<>>
    ELSE (IF docs[i].user_id = user_id THEN <<i>> ELSE <<>>)
         \o PositionsOf(docs, i + 1, user_id)

\* DocumentStore._build_user_index: user_id -> positions of its documents
BuildUserIndex(docs) ==
    [u \in {docs[i].user_id : i \in 1..Len(docs)} |-> PositionsOf(docs, 1, u)]

\* list.remove / del list[i]
RemoveAt(seq, i) == SubSeq(seq, 1, i - 1) \o SubSeq(seq, i + 1, Len(seq))

\* A lookup that does not look at the owner.
FindDocumentAnyOwner(docs, document_id, user_id) ==
    LET ps == {i \in 1..Len(docs) : docs[i].id = document_id}
    IN IF ps = {} THEN 0 ELSE CHOOSE i \in ps : \A j \in ps : i <= j

\* delete_document's lookup loop and documents.index: the first position
\* whose record has this id and this owner, or 0 when there is none.
FindDocument(docs, document_id, user_id) ==
    LET ps == {i \in 1..Len(docs) :
                  docs[i].id = document_id /\ docs[i].user_id = user_id}
    IN IF ps = {} THEN 0 ELSE CHOOSE i \in ps : \A j \in ps : i <= j

RECURSIVE MapFilterIndexNoShift(_, _)
\* MapFilterIndex without the renumbering of the later positions.
MapFilterIndexNoShift(idxs, doc_idx) ==
    IF idxs = <<>> THEN <<>>
    ELSE LET idx == Head(idxs)
             rest == MapFilterIndexNoShift(Tail(idxs), doc_idx)
         IN IF idx = doc_idx THEN rest ELSE <<idx>> \o rest

RECURSIVE MapFilterIndex(_, _)
\* delete_document's list comprehension over the user's positions
MapFilterIndex(idxs, doc_idx) ==
    IF idxs = <<>> THEN <<>>
    ELSE LET idx == Head(idxs)
             rest == MapFilterIndex(Tail(idxs), doc_idx)
         IN IF idx = doc_idx THEN rest
            ELSE <<(IF idx < doc_idx THEN idx ELSE idx - 1)>> \o rest

\* delete_document's repair of user_index after removing position doc_idx
RepairIndex(index, user_id, doc_idx) ==
    IF user_id \in DOMAIN index
    THEN LET renum == MapFilterIndex(index[user_id], doc_idx)
         IN IF renum = <<>>
            THEN [u \in DOMAIN index \ {user_id} |-> index[u]]
            ELSE [index EXCEPT ![user_id] = renum]
    ELSE index

\* add_document's update of user_index with the new last position
AppendIndex(index, user_id, doc_index) ==
    IF user_id \in DOMAIN index
    THEN [index EXCEPT ![user_id] = Append(@, doc_index)]
    ELSE [u \in DOMAIN index \cup {user_id} |->
             IF u = user_id THEN <<doc_index>> ELSE index[u]]

\* An add_document that writes the text file before it looks at the
\* embedding.
AddEffectFileFirst(user_id, title, full_text, summary, embedding) ==
    /\ nextId' = nextId + 1
    /\ files' = [f \in DOMAIN files \cup {nextId} |->
                    IF f = nextId THEN full_text ELSE files[f]]
    /\ IF embedding = NoEmbedding
       THEN UNCHANGED <<documents, user_index, metadata>>
       ELSE LET doc == [id |-> nextId, title |-> title, summary |-> summary,
                        embedding |-> embedding, text_file |-> nextId,
                        user_id |-> user_id]
            IN /\ documents' = Append(documents, doc)
               /\ metadata' = documents'
               /\ user_index' = AppendIndex(user_index, user_id, Len(documents'))

\* DocumentStore.add_document: what it does to the store.  summary and
\* embedding are what summarize_document and get_embedding answered;
\* document_id is the uuid the caller generated.
AddEffect(user_id, title, full_text, summary, embedding) ==
    /\ nextId' = nextId + 1
    /\ IF embedding = NoEmbedding
       THEN UNCHANGED <<documents, user_index, metadata, files>>
       ELSE LET doc == [id |-> nextId, title |-> title, summary |-> summary,
                        embedding |-> embedding, text_file |-> nextId,
                        user_id |-> user_id]
            IN /\ files' = [f \in DOMAIN files \cup {nextId} |->
                               IF f = nextId THEN full_text ELSE files[f]]
               /\ documents' = Append(documents, doc)
               /\ metadata' = documents'
               /\ user_index' = AppendIndex(user_index, user_id, Len(documents'))

\* DocumentStore.add_document: the value returned
AddResult(embedding) == embedding # NoEmbedding

\* The store can take one more document and one more id.
CanAdd == Len(documents) < MaxDocs /\ nextId <= MaxIds

\* A call of add_document
AddDocument(user_id, title, full_text, summary, embedding) ==
    /\ CanAdd
    /\ op' = [name |-> "add_document", user_id |-> user_id, id |-> nextId,
              embedding |-> embedding]
    /\ AddEffect(user_id, title, full_text, summary, embedding)
    /\ ret' = Returned(AddResult(embedding))
    /\ UNCHANGED <<cache, now, botVars, rt>>

\* DocumentStore.delete_document
DeleteDocument(document_id, user_id) ==
    LET doc_idx == FindDocument(documents, document_id, user_id)
    IN /\ op' = [name |-> "delete_document", user_id |-> user_id,
                 id |-> document_id]
       /\ IF doc_idx # 0
          THEN /\ files' = [f \in DOMAIN files \ {documents[doc_idx].text_file}
                               |-> files[f]]
               /\ documents' = RemoveAt(documents, doc_idx)
               /\ user_index' = RepairIndex(user_index, user_id, doc_idx)
               /\ metadata' = documents'
               /\ ret' = Returned(TRUE)
          ELSE /\ ret' = Returned(FALSE)
               /\ UNCHANGED <<documents, user_index, metadata, files>>
       /\ UNCHANGED <<nextId, cache, now, botVars, rt>>

\* DocumentStore.get_user_documents over a document list and an index: the
\* value returned, or IndexError when a position of the user's index is past
\* the end of the list.
UserDocuments(docs, index, user_id) ==
    IF user_id \notin DOMAIN index THEN Returned(<<>>)
    ELSE IF \E k \in 1..Len(index[user_id]) : index[user_id][k] > Len(docs)
         THEN Raised("IndexError")
         ELSE Returned([k \in 1..Len(index[user_id]) |-> docs[index[user_id][k]]])

\* DocumentStore.get_user_documents in the current state
GetUserDocuments(user_id) == UserDocuments(documents, user_index, user_id)

RECURSIVE InsertDescBeforeEqual(_, _)
\* An insertion that puts x before the elements of equal similarity.
InsertDescBeforeEqual(sorted, x) ==
    IF sorted = <<>> THEN <<x>>
    ELSE IF FracGT(Head(sorted).sim, x.sim)
         THEN <<Head(sorted)>> \o InsertDescBeforeEqual(Tail(sorted), x)
         ELSE <<x>> \o sorted

RECURSIVE InsertDesc(_, _)
\* Puts x after every element of the descending list whose similarity is
\* not smaller: list.sort(reverse=True) is stable.
InsertDesc(sorted, x) ==
    IF sorted = <<>> THEN <<x>>
    ELSE IF FracGE(Head(sorted).sim, x.sim)
         THEN <<Head(sorted)>> \o InsertDesc(Tail(sorted), x)
         ELSE <<x>> \o sorted

RECURSIVE SortDesc(_)
\* similarities.sort(key=lambda x: x[0], reverse=True)
SortDesc(seq) ==
    IF seq = <<>> THEN <<>>
    ELSE InsertDesc(SortDesc(SubSeq(seq, 1, Len(seq) - 1)), seq[Len(seq)])

RECURSIVE Candidates(_, _, _)
\* search_documents' loop over the user's positions: (similarity, doc) of
\* the documents at or above the threshold.
Candidates(idxs, query_embedding, similarity_threshold) ==
    IF idxs = <<>> THEN <<>>
    ELSE LET doc == documents[Head(idxs)]
             similarity == CosineSimilarity(query_embedding, doc.embedding)
             rest == Candidates(Tail(idxs), query_embedding, similarity_threshold)
         IN IF doc.embedding = NoEmbedding THEN rest
            ELSE IF FracGE(similarity, similarity_threshold)
                 THEN <<[sim |-> similarity, doc |-> doc]>> \o rest
                 ELSE rest

\* The content of a text file whose open() or read() raises.
Unreadable == "<unreadable>"

\* A result whose full_text stays empty when the file cannot be read.
HydrateNoFallback(c) ==
    [title |-> c.doc.title, summary |-> c.doc.summary,
     full_text |-> IF c.doc.text_file \in DOMAIN files
                      /\ files[c.doc.text_file] # Unreadable
                   THEN files[c.doc.text_file] ELSE "",
     similarity |-> c.sim,
     doc_id |-> c.doc.id, owner |-> c.doc.user_id]

\* One search result.  full_text is the file's text, or the summary when
\* the file is missing or its read fails.  doc_id and owner are not in the
\* returned dict: they record which document the result was built from.
Hydrate(c) ==
    [title |-> c.doc.title, summary |-> c.doc.summary,
     full_text |-> IF c.doc.text_file \notin DOMAIN files THEN c.doc.summary
                   ELSE IF files[c.doc.text_file] = Unreadable THEN c.doc.summary
                   ELSE files[c.doc.text_file],
     similarity |-> c.sim,
     doc_id |-> c.doc.id, owner |-> c.doc.user_id]

\* search_documents' similarities[:top_k]: the candidates that are turned
\* into results, or none when the search returns early.
Ranked(user_id, query_embedding, top_k, similarity_threshold) ==
    IF documents = <<>> THEN <<>>
    ELSE IF user_id \notin DOMAIN user_index THEN <<>>
    ELSE IF user_index[user_id] = <<>> THEN <<>>
    ELSE IF query_embedding = NoEmbedding THEN <<>>
    ELSE IF \E k \in 1..Len(user_index[user_id]) :
                user_index[user_id][k] > Len(documents)
         THEN <<>>  \* IndexError, caught by the except clause
    ELSE LET similarities ==
                 SortDesc(Candidates(user_index[user_id], query_embedding,
                                     similarity_threshold))
             n == IF Len(similarities) < top_k THEN Len(similarities) ELSE top_k
         IN SubSeq(similarities, 1, n)

\* DocumentStore.search_documents: the list returned.  query_embedding is
\* what get_embedding answered for the query.
SearchResults(user_id, query_embedding, top_k, similarity_threshold) ==
    LET ranked == Ranked(user_id, query_embedding, top_k, similarity_threshold)
    IN [k \in 1..Len(ranked) |-> Hydrate(ranked[k])]

\* A call of search_documents
SearchDocuments(user_id, query_embedding, top_k, similarity_threshold) ==
    /\ op' = [name |-> "search_documents", user_id |-> user_id,
              query_embedding |-> query_embedding, top_k |-> top_k,
              similarity_threshold |-> similarity_threshold]
    /\ ret' = Returned(SearchResults(user_id, query_embedding, top_k, similarity_threshold))
    /\ UNCHANGED <<storeVars, cache, now, botVars, rt>>

\* A call of get_user_documents
ListDocuments(user_id) ==
    /\ op' = [name |-> "get_user_documents", user_id |-> user_id]
    /\ ret' = GetUserDocuments(user_id)
    /\ UNCHANGED <<storeVars, cache, now, botVars, rt>>

\* A text file disappears from the storage directory, outside the program.
FileLost(text_file) ==
    /\ text_file \in DOMAIN files
    /\ files' = [f \in DOMAIN files \ {text_file} |-> files[f]]
    /\ op' = [name |-> "file_lost", text_file |-> text_file]
    /\ ret' = None
    /\ UNCHANGED <<documents, user_index, metadata, nextId, cache, now, botVars, rt>>

\* A text file becomes unreadable, outside the program.
FileDamaged(text_file) ==
    /\ text_file \in DOMAIN files
    /\ files[text_file] # Unreadable
    /\ files' = [files EXCEPT ![text_file] = Unreadable]
    /\ op' = [name |-> "file_damaged", text_file |-> text_file]
    /\ ret' = None
    /\ UNCHANGED <<documents, user_index, metadata, nextId, cache, now, botVars, rt>>

\* DocumentStore.__init__ on a restart of the process: _load_documents, then
\* _build_user_index.
Restart ==
    /\ op' = [name |-> "__init__"]
    /\ ret' = None
    /\ documents' = metadata
    /\ user_index' = BuildUserIndex(metadata)
    /\ UNCHANGED <<metadata, files, nextId, cache, now, botVars, rt>>

NoOp == [name |-> "none"]

InitRest ==
    /\ cache = <<>>
    /\ now = StartTime
    /\ history = <<>>
    /\ user_data = [u \in Users |-> [waiting_for_doc_text |-> FALSE]]
    /\ routed = None
    /\ inflight = <<>>
    /\ rt = [pc |-> "idle"]

InitStore ==
    /\ documents = <<>>
    /\ user_index = <<>>
    /\ metadata = <<>>
    /\ files = <<>>
    /\ nextId = 1
    /\ op = NoOp
    /\ ret = None
    /\ InitRest

NextStore ==
    \/ \E u \in Users, t \in Titles, x \in Texts, sm \in Summaries,
          e \in Vectors \cup {NoEmbedding} :
          AddDocument(u, t, x, sm, e)
    \/ \E i \in 1..MaxIds, u \in Users : DeleteDocument(i, u)
    \/ \E u \in Users, q \in Vectors \cup {NoEmbedding}, k \in TopKs, th \in Thresholds :
          SearchDocuments(u, q, k, th)
    \/ \E u \in Users : ListDocuments(u)
    \/ Restart

SpecStore == InitStore /\ [][NextStore]_vars

\* The store in a directory whose text files can disappear or become
\* unreadable.
NextFiles ==
    \/ \E u \in Users, t \in Titles, x \in Texts, sm \in Summaries,
          e \in Vectors \cup {NoEmbedding} :
          AddDocument(u, t, x, sm, e)
    \/ \E i \in 1..MaxIds, u \in Users : DeleteDocument(i, u)
    \/ \E u \in Users, q \in Vectors, k \in TopKs :
          SearchDocuments(u, q, k, Frac(0, 1))
    \/ \E f \in DOMAIN files : FileLost(f)
    \/ \E f \in DOMAIN files : FileDamaged(f)

SpecFiles == InitStore /\ [][NextFiles]_vars

\* ------------------------------------------------------ CacheManager

\* Queries, assembled contexts and answers.  ":" is the separator
\* _generate_key puts between the parts of the composite key.
Queries == {"a", "a:b"}
Contexts == {"c", "b:c"}
Answers == {"", "r"}

\* The users whose requests reach the cache.
CacheUsers == {1}

\* A cache file json.load cannot parse.
Corrupt == [corrupt |-> TRUE]

\* _generate_key without the context.
GenerateKeyNoContext(query, context, user_id) ==
    ToString(user_id) \o ":" \o query

\* CacheManager._generate_key.  The key is the composite string itself:
\* sha256 is taken as collision-free, so two digests are equal exactly when
\* the composite strings are.
GenerateKey(query, context, user_id) ==
    ToString(user_id) \o ":" \o query \o ":" \o context

\* The expiry test with the boundary instant counted as expired.
ExpiredAtBoundary(timestamp, current_time) == current_time - timestamp >= TTL

\* get's expiry test: current_time - timestamp > self.ttl
Expired(timestamp, current_time) == current_time - timestamp > TTL

\* cache_data with the query stored in place of the answer.
CacheDataSwapped(query, context, user_id, answer, timestamp) ==
    [query |-> query, answer |-> query, timestamp |-> timestamp,
     user_id |-> user_id, context |-> context]

\* set's cache_data.  context is not written to the file: it records
\* which context the entry was stored for.
CacheData(query, context, user_id, answer, timestamp) ==
    [query |-> query, answer |-> answer, timestamp |-> timestamp,
     user_id |-> user_id, context |-> context]

\* os.remove(cache_path)
RemoveKey(c, key) == [k \in DOMAIN c \ {key} |-> c[k]]

\* A write that keeps the file already there.
PutKeyIfAbsent(c, key, data) ==
    [k \in DOMAIN c \cup {key} |-> IF k \in DOMAIN c THEN c[k] ELSE data]

\* The file written by set: open(cache_path, 'w') replaces what was there.
PutKey(c, key, data) ==
    [k \in DOMAIN c \cup {key} |-> IF k = key THEN data ELSE c[k]]

\* A timestamp lookup that takes an entry without one as written just now.
TimestampDefaultNow(cache_data) ==
    IF "timestamp" \in DOMAIN cache_data THEN cache_data.timestamp ELSE now

\* cache_data.get('timestamp', 0)
Timestamp(cache_data) ==
    IF "timestamp" \in DOMAIN cache_data THEN cache_data.timestamp ELSE 0

\* What get logs: which of its branches ran.
GetBranch(c, key, current_time) ==
    IF key \notin DOMAIN c THEN "not_found"
    ELSE IF c[key] = Corrupt THEN "error"
    ELSE IF Expired(Timestamp(c[key]), current_time) THEN "expired"
    ELSE "found"

\* The content of the cache file of key, None when there is no file.
Stored(c, key) == IF key \in DOMAIN c THEN c[key] ELSE None

\* What json.load finds in the cache file of key.
StoredKind(c, key) ==
    IF key \notin DOMAIN c THEN "no_file"
    ELSE IF c[key] = Corrupt THEN "unparseable"
    ELSE IF "timestamp" \notin DOMAIN c[key] THEN "no_timestamp"
    ELSE "entry"

\* CacheManager.get: the value returned
GetValue(c, key, current_time) ==
    IF GetBranch(c, key, current_time) = "found"
    THEN Returned(c[key].answer) ELSE None

\* A get that stamps the entry it finds with the time of the read.
GetEffectRefreshing(c, key, current_time) ==
    IF GetBranch(c, key, current_time) \in {"expired", "error"}
    THEN RemoveKey(c, key)
    ELSE IF GetBranch(c, key, current_time) = "found"
    THEN [c EXCEPT ![key].timestamp = current_time]
    ELSE c

\* CacheManager.get: the cache directory afterwards
GetEffect(c, key, current_time) ==
    IF GetBranch(c, key, current_time) \in {"expired", "error"}
    THEN RemoveKey(c, key) ELSE c

\* A call of CacheManager.get
CacheGet(query, context, user_id) ==
    LET key == GenerateKey(query, context, user_id)
    IN /\ op' = [name |-> "get", query |-> query, context |-> context,
                 user_id |-> user_id, log |-> GetBranch(cache, key, now),
                 read |-> StoredKind(cache, key)]
       /\ ret' = GetValue(cache, key, now)
       /\ cache' = GetEffect(cache, key, now)
       /\ UNCHANGED <<storeVars, now, botVars, rt>>

\* The cache directory has room for an entry under key when it holds fewer
\* than limit files.
CacheRoom(key, limit) ==
    key \in DOMAIN cache \/ Cardinality(DOMAIN cache) < limit

\* A call of CacheManager.set.  written is whether the file could be
\* opened and written; when not, set returns False.
CacheSet(query, context, user_id, answer, written) ==
    LET key == GenerateKey(query, context, user_id)
    IN /\ op' = [name |-> "set", query |-> query, context |-> context,
                 user_id |-> user_id, answer |-> answer, time |-> now,
                 replaced |-> Stored(cache, key)]
       /\ ret' = Returned(written)
       /\ cache' = IF written
                   THEN PutKey(cache, key,
                               CacheData(query, context, user_id, answer, now))
                   ELSE cache
       /\ UNCHANGED <<storeVars, now, botVars, rt>>

\* The clock advances.
Tick ==
    /\ now < StartTime + MaxTicks
    /\ now' = now + 1
    /\ UNCHANGED <<storeVars, cache, botVars, rt, op, ret>>

\* A cache file is damaged on disk, outside the program.
Damage(key) ==
    /\ key \in DOMAIN cache
    /\ cache[key] # Corrupt
    /\ cache' = [cache EXCEPT ![key] = Corrupt]
    /\ op' = [name |-> "damage"]
    /\ ret' = None
    /\ UNCHANGED <<storeVars, now, botVars, rt>>

\* A cache file is replaced, outside the program, by the same JSON object
\* without its timestamp.
StripTimestamp(key) ==
    /\ key \in DOMAIN cache
    /\ "timestamp" \in DOMAIN cache[key]
    /\ cache' = [cache EXCEPT
                    ![key] = [f \in DOMAIN cache[key] \ {"timestamp"} |->
                                 cache[key][f]]]
    /\ op' = [name |-> "strip_timestamp"]
    /\ ret' = None
    /\ UNCHANGED <<storeVars, now, botVars, rt>>

NextCache ==
    \/ \E q \in Queries, c \in Contexts, u \in Users : CacheGet(q, c, u)
    \/ \E q \in Queries, c \in Contexts, u \in Users, a \in Answers, w \in BOOLEAN :
          CacheRoom(GenerateKey(q, c, u), MaxCache) /\ CacheSet(q, c, u, a, w)
    \/ Tick
    \/ \E k \in DOMAIN cache : Damage(k)

SpecCache == InitStore /\ [][NextCache]_vars

\* One user's cache in a directory whose files can be made unparseable or
\* lose their timestamp.
NextCacheFiles ==
    \/ \E q \in Queries, c \in Contexts, u \in CacheUsers : CacheGet(q, c, u)
    \/ \E q \in Queries, c \in Contexts, u \in CacheUsers, a \in Answers,
          w \in BOOLEAN :
          CacheRoom(GenerateKey(q, c, u), MaxCache) /\ CacheSet(q, c, u, a, w)
    \/ Tick
    \/ \E k \in DOMAIN cache : Damage(k)
    \/ \E k \in DOMAIN cache : StripTimestamp(k)

SpecCacheFiles == InitStore /\ [][NextCacheFiles]_vars

\* One user's cache with room for one entry more, so that a set can happen
\* next to the entry of another key.
NextCachePair ==
    \/ \E q \in Queries, c \in Contexts, u \in CacheUsers : CacheGet(q, c, u)
    \/ \E q \in Queries, c \in Contexts, u \in CacheUsers, a \in Answers,
          w \in BOOLEAN :
          CacheRoom(GenerateKey(q, c, u), MaxCache + 1) /\ CacheSet(q, c, u, a, w)
    \/ Tick

SpecCachePair == InitStore /\ [][NextCachePair]_vars

\* ------------------------------------------------------ RetryHandler

\* The decorator's defaults.
InitialDelay == 1
ExponentialBase == 2
\* max_delay: the default, and a small one that caps the backoff early.
MaxDelays == {3, 60}

\* The error kinds the wrapped call may raise: the four of the default
\* `exceptions` tuple, and one outside it.
RetryableKinds ==
    {"APIError", "APIConnectionError", "RateLimitError", "APITimeoutError"}
OtherKinds == {"ValueError"}
Values == {"v"}

\* A retry test that catches every error kind.
IsRetryableAny(kind) == kind \in RetryableKinds \cup OtherKinds

\* except exceptions as e: the kinds caught for a retry
IsRetryable(kind) == kind \in RetryableKinds

\* A loop that runs once more than max_retries.
LoopContinuesOneMore(attempt, max_retries) == attempt <= max_retries

\* for attempt in range(max_retries): whether the body runs for attempt
LoopContinues(attempt, max_retries) == attempt < max_retries

RECURSIVE Pow(_, _)
\* exponential_base ** attempt
Pow(b, e) == IF e = 0 THEN 1 ELSE b * Pow(b, e - 1)

Min(a, b) == IF a <= b THEN a ELSE b

\* A backoff without the max_delay cap.
CurrentDelayUncapped(attempt, max_delay) ==
    InitialDelay * Pow(ExponentialBase, attempt)

\* current_delay = min(delay * (exponential_base ** attempt), max_delay)
CurrentDelay(attempt, max_delay) ==
    Min(InitialDelay * Pow(ExponentialBase, attempt), max_delay)

\* A call of the wrapper begins: delay = initial_delay, last_exception = None.
RetryStart(max_retries, max_delay) ==
    /\ rt.pc \in {"idle", "returned", "raised"}
    /\ rt' = [pc |-> "loop", max_retries |-> max_retries,
              max_delay |-> max_delay, attempt |-> 0, calls |-> 0,
              errs |-> <<>>, delays |-> <<>>, last_exception |-> None,
              result |-> None, raised |-> None]
    /\ UNCHANGED <<storeVars, cache, now, botVars, op, ret>>

\* One pass of the loop body in which func returns value.
RetryAttemptReturns(value) ==
    /\ rt.pc = "loop"
    /\ LoopContinues(rt.attempt, rt.max_retries)
    /\ rt' = [rt EXCEPT !.pc = "returned", !.calls = @ + 1,
                        !.result = Returned(value)]
    /\ UNCHANGED <<storeVars, cache, now, botVars, op, ret>>

\* One pass of the loop body in which func raises an error of this kind:
\* a retryable one is kept as last_exception and, unless this was the last
\* attempt, slept on; any other is re-raised at once.
RetryAttemptRaises(kind) ==
    /\ rt.pc = "loop"
    /\ LoopContinues(rt.attempt, rt.max_retries)
    /\ LET e == [kind |-> kind, attempt |-> rt.attempt]
       IN IF IsRetryable(kind)
          THEN rt' = [rt EXCEPT
                        !.calls = @ + 1,
                        !.errs = Append(@, e),
                        !.last_exception = e,
                        !.delays = IF rt.attempt < rt.max_retries - 1
                                   THEN Append(@, CurrentDelay(rt.attempt, rt.max_delay))
                                   ELSE @,
                        !.attempt = @ + 1]
          ELSE rt' = [rt EXCEPT
                        !.pc = "raised",
                        !.calls = @ + 1,
                        !.errs = Append(@, e),
                        !.raised = e]
    /\ UNCHANGED <<storeVars, cache, now, botVars, op, ret>>

\* The loop is over: raise last_exception.  With nothing caught (max_retries
\* = 0) last_exception is None and `raise None` is a TypeError.
RetryExhausted ==
    /\ rt.pc = "loop"
    /\ ~LoopContinues(rt.attempt, rt.max_retries)
    /\ rt' = [rt EXCEPT
                 !.pc = "raised",
                 !.raised = IF rt.last_exception = None
                            THEN [kind |-> "TypeError", attempt |-> -1]
                            ELSE rt.last_exception]
    /\ UNCHANGED <<storeVars, cache, now, botVars, op, ret>>

NextRetry ==
    \/ \E m \in 0..MaxRetriesBound, d \in MaxDelays : RetryStart(m, d)
    \/ \E v \in Values : RetryAttemptReturns(v)
    \/ \E k \in RetryableKinds \cup OtherKinds : RetryAttemptRaises(k)
    \/ RetryExhausted

SpecRetry == InitStore /\ [][NextRetry]_vars

\* -------------------------------------------- RetryHandler: the claims

\* Every call made so far raised a retryable error.
AlwaysRetryable ==
    /\ Len(rt.errs) = rt.calls
    /\ \A i \in 1..Len(rt.errs) : rt.errs[i].kind \in RetryableKinds

\* C9: for max_retries >= 1, when every attempt raises a retryable error
\* the wrapper calls func exactly max_retries times and then raises the
\* error of the last attempt; it returns no value.
RetryExhaustion ==
    (/\ rt.pc \in {"returned", "raised"}
     /\ rt.max_retries >= 1
     /\ AlwaysRetryable)
    => /\ rt.pc = "raised"
       /\ rt.calls = rt.max_retries
       /\ rt.raised = rt.errs[Len(rt.errs)]

\* C9's case: three attempts, each failed with a retryable error, and the
\* wrapper has raised.
RetryExhaustionWitness ==
    /\ rt.pc = "raised"
    /\ rt.max_retries = 3
    /\ rt.calls = 3
    /\ AlwaysRetryable

\* C10: an error outside the retryable set is propagated at once: it is the
\* error raised by the wrapper, the call that raised it is the last one
\* made, and no delay is taken after it.
NonRetryablePropagates ==
    rt.pc # "idle" =>
        \A i \in 1..Len(rt.errs) :
            rt.errs[i].kind \notin RetryableKinds =>
                /\ rt.pc = "raised"
                /\ rt.raised = rt.errs[i]
                /\ rt.calls = i
                /\ Len(rt.delays) = i - 1

\* C10's case: the second of three allowed attempts raised an error outside
\* the retryable set.
NonRetryableWitness ==
    /\ rt.pc = "raised"
    /\ rt.max_retries = 3
    /\ Len(rt.errs) = 2
    /\ rt.errs[1].kind \in RetryableKinds
    /\ rt.errs[2].kind \notin RetryableKinds

\* C12: the delay taken after failed attempt i (0-based) is
\* min(initial_delay * base^i, max_delay), that is min(2^i, max_delay) with
\* the defaults; delays are taken only between attempts: never more delays
\* than failed attempts, and once the wrapper has finished, one delay fewer
\* than calls, so none follows the final attempt.
DelaySchedule ==
    rt.pc # "idle" =>
        /\ \A j \in 1..Len(rt.delays) :
              rt.delays[j] = IF 2 ^ (j - 1) <= rt.max_delay
                             THEN 2 ^ (j - 1) ELSE rt.max_delay
        /\ Len(rt.delays) <= Len(rt.errs)
        /\ (rt.pc \in {"returned", "raised"} /\ rt.calls >= 1)
              => Len(rt.delays) = rt.calls - 1

\* C12's case: four attempts failed with max_delay 3, so the third delay
\* was capped, and the wrapper raised without sleeping again.
DelayScheduleWitness ==
    /\ rt.pc = "raised"
    /\ rt.max_delay = 3
    /\ rt.calls = 4
    /\ rt.delays = <<1, 2, 3>>

\* C31: for every max_retries >= 0 the wrapper swallows and replaces
\* nothing: when it has returned, func was called and the value is the one
\* func returned; when it has raised, the error is one that a call of func
\* raised.
RetryNeverReplaces ==
    /\ rt.pc = "returned" =>
          /\ rt.calls >= 1
          /\ rt.result \in {Returned(v) : v \in Values}
    /\ rt.pc = "raised" =>
          \E i \in 1..Len(rt.errs) : rt.errs[i] = rt.raised

\* What holds of C31: the same for max_retries >= 1, where the error raised
\* is that of the last call.
RetryNeverReplacesFromOne ==
    (rt.pc \in {"returned", "raised"} /\ rt.max_retries >= 1) =>
        /\ rt.calls >= 1
        /\ rt.pc = "returned" => rt.result \in {Returned(v) : v \in Values}
        /\ rt.pc = "raised" => rt.errs[Len(rt.errs)] = rt.raised

\* ---------------------------------- with_fallback and the OpenAIService

\* What one call of the underlying function or API does: it returns a
\* value or raises an error of some kind.
ApiKinds == {"RateLimitError", "APIError", "ValueError"}
ApiOutcomes ==
    {[tag |-> "ok", kind |-> "none"]} \cup
    {[tag |-> "raise", kind |-> k] : k \in ApiKinds}

FallbackValues == {"fallback", "none"}

\* A wrapper that swallows only the retryable kinds.
WithFallbackResultRetryableOnly(outcome, fallback_value) ==
    IF outcome.tag = "ok" THEN Returned("v")
    ELSE IF IsRetryable(outcome.kind) THEN Returned(fallback_value)
    ELSE Raised(outcome.kind)

\* with_fallback's wrapper: try: return func(...); except Exception:
\* return fallback_value
WithFallbackResult(outcome, fallback_value) ==
    IF outcome.tag = "ok" THEN Returned("v") ELSE Returned(fallback_value)

\* One call of a function decorated with with_fallback(fallback_value);
\* func is called once, with the given outcome.
WithFallbackCall(outcome, fallback_value) ==
    /\ op' = [name |-> "with_fallback", outcome |-> outcome,
              fallback_value |-> fallback_value, calls |-> 1]
    /\ ret' = WithFallbackResult(outcome, fallback_value)
    /\ UNCHANGED <<storeVars, cache, now, botVars, rt>>

\* max_retries of the decorator on the three OpenAIService methods
ClientMaxRetries == 3

ClientMethods == {"summarize_document", "get_embedding", "generate_answer"}

\* What each method returns when its API call succeeds.
SuccessValue(method) ==
    CASE method = "summarize_document" -> "summary"
      [] method = "get_embedding" -> "embedding"
      [] method = "generate_answer" -> "answer"

\* What each method's own `except Exception` returns: the head of the
\* text, the empty list, the apology.
FailureValue(method) ==
    CASE method = "summarize_document" -> "text[:max_length]"
      [] method = "get_embedding" -> "[]"
      [] method = "generate_answer" -> "error message"

\* The body of a method: the API call sits inside try/except Exception, so
\* an error of any kind becomes the failure value and nothing is raised.
MethodBody(method, outcome) ==
    IF outcome.tag = "ok" THEN Returned(SuccessValue(method))
    ELSE Returned(FailureValue(method))

\* The API outcomes of the successive calls a wrapper might make.
Scripts == [1..ClientMaxRetries -> ApiOutcomes]

RECURSIVE WrapperRun(_, _, _, _)
\* exponential_backoff's wrapper around a method body, from this attempt
\* on: the result, and how many times the body (and so the API) ran.
WrapperRun(method, script, attempt, last_exception) ==
    IF ~LoopContinues(attempt, ClientMaxRetries)
    THEN [result |-> Raised(last_exception), calls |-> attempt]
    ELSE LET r == MethodBody(method, script[attempt + 1])
         IN IF "value" \in DOMAIN r
            THEN [result |-> r, calls |-> attempt + 1]
            ELSE IF IsRetryable(r.error)
                 THEN WrapperRun(method, script, attempt + 1, r.error)
                 ELSE [result |-> r, calls |-> attempt + 1]

\* One call of a decorated OpenAIService method.
ClientCall(method, script) ==
    LET run == WrapperRun(method, script, 0, "none")
    IN /\ op' = [name |-> method, script |-> script, api_calls |-> run.calls]
       /\ ret' = run.result
       /\ UNCHANGED <<storeVars, cache, now, botVars, rt>>

NextClient ==
    \/ \E o \in ApiOutcomes, f \in FallbackValues : WithFallbackCall(o, f)
    \/ \E m \in ClientMethods, s \in Scripts : ClientCall(m, s)

SpecClient == InitStore /\ [][NextClient]_vars

\* C11: when a method's API call raises a retryable error on the first
\* attempt and would succeed on the second, the API is called again and the
\* caller gets the successful result.
TransientErrorsRetried ==
    \A m \in ClientMethods :
        (/\ op.name = m
         /\ op.script[1].tag = "raise" /\ op.script[1].kind \in RetryableKinds
         /\ op.script[2].tag = "ok")
        => /\ op.api_calls = 2
           /\ ret = Returned(SuccessValue(m))

\* C13: a call through with_fallback returns func's own result when func
\* succeeds and the fallback value when func raises an error of any kind;
\* nothing is raised, and func is called once.
FallbackAlwaysReturns ==
    op.name = "with_fallback" =>
        /\ op.calls = 1
        /\ "value" \in DOMAIN ret
        /\ op.outcome.tag = "ok" => ret = Returned("v")
        /\ op.outcome.tag = "raise" => ret = Returned(op.fallback_value)

\* C13's case: func raised an error outside the retryable kinds and the
\* caller got the fallback value.
FallbackWitness ==
    /\ op.name = "with_fallback"
    /\ op.outcome.tag = "raise" /\ op.outcome.kind = "ValueError"
    /\ ret = Returned(op.fallback_value)

\* ------------------------------------------------------- QueryRouter

\* Strings are ASCII here, so the Russian keywords are transliterated.
UpperLetters == "ABCDEFGHIJKLMNOPQRSTUVWXYZ"
LowerLetters == "abcdefghijklmnopqrstuvwxyz"

\* str.lower() of one character
LowerChar(c) ==
    IF \E i \in 1..Len(UpperLetters) : SubSeq(UpperLetters, i, i) = c
    THEN LET i == CHOOSE j \in 1..Len(UpperLetters) : SubSeq(UpperLetters, j, j) = c
         IN SubSeq(LowerLetters, i, i)
    ELSE c

\* The Greek capital sigma, small sigma and final small sigma, written
\* with characters that are no letters.
CapitalSigma == "$"
SmallSigma == "%"
FinalSigma == "&"

\* The characters str.lower() passes over when it looks for the letters
\* around a capital sigma.
CaseIgnorable == ".':"

IsCaseIgnorable(c) ==
    \E i \in 1..Len(CaseIgnorable) : SubSeq(CaseIgnorable, i, i) = c

IsCased(c) ==
    \/ c \in {CapitalSigma, SmallSigma, FinalSigma}
    \/ \E i \in 1..Len(UpperLetters) :
          c \in {SubSeq(UpperLetters, i, i), SubSeq(LowerLetters, i, i)}

RECURSIVE CasedBefore(_, _)
\* A letter stands at position i or before it with only ignorable
\* characters in between.
CasedBefore(str, i) ==
    IF i < 1 THEN FALSE
    ELSE IF IsCased(SubSeq(str, i, i)) THEN TRUE
    ELSE IF IsCaseIgnorable(SubSeq(str, i, i)) THEN CasedBefore(str, i - 1)
    ELSE FALSE

RECURSIVE CasedAfter(_, _)
\* A letter stands at position i or after it with only ignorable
\* characters in between.
CasedAfter(str, i) ==
    IF i > Len(str) THEN FALSE
    ELSE IF IsCased(SubSeq(str, i, i)) THEN TRUE
    ELSE IF IsCaseIgnorable(SubSeq(str, i, i)) THEN CasedAfter(str, i + 1)
    ELSE FALSE

\* str.lower() of the character at position i: a capital sigma that ends a
\* word becomes the final sigma, any other the small one.
LowerAt(str, i) ==
    IF SubSeq(str, i, i) = CapitalSigma
    THEN (IF CasedBefore(str, i - 1) /\ ~CasedAfter(str, i + 1)
          THEN FinalSigma ELSE SmallSigma)
    ELSE LowerChar(SubSeq(str, i, i))

RECURSIVE LowerRange(_, _, _)
\* str.lower() of the characters at positions lo..hi, by halves
LowerRange(str, lo, hi) ==
    IF lo > hi THEN ""
    ELSE IF lo = hi THEN LowerAt(str, lo)
    ELSE LowerRange(str, lo, (lo + hi) \div 2)
            \o LowerRange(str, (lo + hi) \div 2 + 1, hi)

\* str.lower()
Lower(str) == LowerRange(str, 1, Len(str))

\* keyword in query_lower
Contains(str, keyword) ==
    \E i \in 1..(Len(str) - Len(keyword) + 1) :
        SubSeq(str, i, i + Len(keyword) - 1) = keyword

\* QueryType, in the order of the enumeration
QueryTypes == <<"factual", "analytical", "procedural", "conceptual", "comparison">>

\* QueryRouter.keywords, as __init__ fills it
Keywords(query_type) ==
    CASE query_type = "factual" ->
           {"kto", "chto", "gde", "kogda", "kakoj", "kakaya", "kakie",
            "skolko", "data", "dedlajn", "procent", "komandy"}
      [] query_type = "analytical" ->
           {"pochemu", "zachem", "kak rabotaet", "prichina", "obyasni",
            "razberis", "proanaliziruj", "v chem sut"}
      [] query_type = "procedural" ->
           {"kak sdelat", "kak sozdat", "shagi", "instrukciya",
            "rukovodstvo", "tutorial", "kak ispolzovat"}
      [] query_type = "conceptual" ->
           {"chto takoe", "opredelenie", "koncepciya", "ponyatie",
            "termin", "smysl", "znachenie"}
      [] query_type = "comparison" ->
           {"sravni", "razlichie", "otlichie", "shodstvo", "vs",
            "luchshe", "huzhe", "preimushchestvo", "nedostatok"}

\* QueryRouter.type_to_strategy, as __init__ fills it
TypeToStrategy(query_type) ==
    CASE query_type \in {"factual", "conceptual"} -> "precise"
      [] query_type \in {"analytical", "procedural"} -> "broad"
      [] query_type = "comparison" -> "comprehensive"

Strategies == {"precise", "broad", "comprehensive"}

\* QueryRouter.strategy_configs[strategy]['top_k']
StrategyTopK(strategy) ==
    CASE strategy = "precise" -> 3
      [] strategy = "broad" -> 7
      [] strategy = "comprehensive" -> 10

\* QueryRouter.strategy_configs[strategy]['similarity_threshold']: 0.0
StrategyThreshold(strategy) == Frac(0, 1)

\* QueryRouter.strategy_configs[strategy]['description']
StrategyDescription(strategy) ==
    CASE strategy = "precise" -> "Precise search for factual questions"
      [] strategy = "broad" -> "Broad search for analytical questions"
      [] strategy = "comprehensive" ->
           "Comprehensive search for comparisons and complex questions"

\* The router's three tables after QueryRouter.__init__; no method assigns
\* them afterwards.
InitRouter ==
    [keywords |-> [t \in {QueryTypes[i] : i \in 1..Len(QueryTypes)} |-> Keywords(t)],
     strategy_configs |->
        [st \in Strategies |->
            [top_k |-> StrategyTopK(st),
             similarity_threshold |-> StrategyThreshold(st),
             description |-> StrategyDescription(st)]],
     type_to_strategy |->
        [t \in {QueryTypes[i] : i \in 1..Len(QueryTypes)} |-> TypeToStrategy(t)]]

\* classify_query's scores[query_type]
Score(tables, query, query_type) ==
    Cardinality({k \in tables.keywords[query_type] : Contains(Lower(query), k)})

\* A maximum that keeps the last of several maximal types.
BetterLastWins(score, best_score) == score >= best_score

\* max(..., key=...) replaces the element it holds only by a strictly
\* greater one
Better(score, best_score) == score > best_score

RECURSIVE BestType(_, _, _, _)
\* max(scores.items(), key=lambda x: x[1])[0], over the types from position
\* i on, with the best type met so far
BestType(tables, query, i, best) ==
    IF i > Len(QueryTypes) THEN best
    ELSE BestType(tables, query, i + 1,
                  IF Better(Score(tables, query, QueryTypes[i]),
                            Score(tables, query, best))
                  THEN QueryTypes[i] ELSE best)

\* A default that is the first type of the enumeration.
DefaultTypeFirst == "factual"

\* if max_score == 0: return QueryType.ANALYTICAL
DefaultType == "analytical"

\* QueryRouter.classify_query
ClassifyQuery(tables, query) ==
    LET best_type == BestType(tables, query, 2, QueryTypes[1])
        max_score == Score(tables, query, best_type)
    IN IF max_score = 0 THEN DefaultType ELSE best_type

\* A type-to-strategy lookup that sends conceptual queries to broad.
LookupStrategySwapped(tables, query_type) ==
    IF query_type = "conceptual" THEN "broad"
    ELSE tables.type_to_strategy[query_type]

\* strategy = self.type_to_strategy[query_type]
LookupStrategy(tables, query_type) == tables.type_to_strategy[query_type]

\* A route whose top_k depends on the call made before it.
RouteAfterPrevious(tables, query) ==
    [query |-> query, query_type |-> "analytical", strategy |-> "broad",
     top_k |-> IF op.name = "route" THEN 7 ELSE 3,
     similarity_threshold |-> Frac(0, 1),
     description |-> "Broad search for analytical questions"]

\* QueryRouter.route
Route(tables, query) ==
    LET query_type == ClassifyQuery(tables, query)
        strategy == LookupStrategy(tables, query_type)
        config == tables.strategy_configs[strategy]
    IN [query |-> query, query_type |-> query_type, strategy |-> strategy,
        top_k |-> config.top_k,
        similarity_threshold |-> config.similarity_threshold,
        description |-> config.description]

\* The queries put to the router on its own: one of the first phrases,
\* alone or followed by a blank and one of the second.  They hold one
\* keyword of each type, no keyword, a phrase with a keyword of two types,
\* and one with two keywords of one type.
RouterWords ==
    {"kakoj", "pochemu", "shagi", "termin", "Sravni", "privet",
     "chto takoe", "luchshe vs"}
RouterTails == {"Sravni", "privet", "luchshe vs"}
RouterQueries ==
    RouterWords \cup {w1 \o " " \o w2 : w1 \in RouterWords, w2 \in RouterTails}

\* The question the bot is asked.
BotQueries == {"kakoj dedlajn"}

\* classify_query and route of every query, by the tables of __init__.
ClassifyTable ==
    [q \in RouterQueries \cup BotQueries |-> ClassifyQuery(InitRouter, q)]
RouteTable ==
    [q \in RouterQueries \cup BotQueries |-> Route(InitRouter, q)]

\* classify_query's scores, of every query.
ScoreTable ==
    [q \in RouterQueries \cup BotQueries |->
        [t \in DOMAIN InitRouter.keywords |-> Score(InitRouter, q, t)]]

\* One more router call was made since the kept one (counted up to two).
OneCallLater(kept) ==
    IF kept = None THEN kept
    ELSE [kept EXCEPT !.since = IF @ < 2 THEN @ + 1 ELSE @]

\* One call of classify_query.
ClassifyCall(query) ==
    /\ op' = [name |-> "classify_query", query |-> query]
    /\ ret' = Returned(ClassifyTable[query])
    /\ routed' = OneCallLater(routed)
    /\ UNCHANGED <<storeVars, cache, now, history, user_data, inflight, rt>>

\* One call of route.  `routed` may keep the call for a later comparison.
RouteCall(query, keep) ==
    /\ op' = [name |-> "route", query |-> query]
    /\ ret' = Returned(RouteTable[query])
    /\ routed' = IF keep
                 THEN [query |-> query, result |-> RouteTable[query], since |-> 0]
                 ELSE OneCallLater(routed)
    /\ UNCHANGED <<storeVars, cache, now, history, user_data, inflight, rt>>

NextRouter ==
    \/ \E q \in RouterQueries : ClassifyCall(q)
    \/ \E q \in RouterQueries, keep \in BOOLEAN : RouteCall(q, keep)

SpecRouter == InitStore /\ [][NextRouter]_vars

\* --------------------------------------------- QueryRouter: the claims

\* The position of a type in the fixed order of the enumeration.
Rank(query_type) == CHOOSE i \in 1..Len(QueryTypes) : QueryTypes[i] = query_type

\* C14: classify_query returns a type whose keyword count in the
\* lower-cased query is maximal; when that count is not zero, every type
\* earlier in the order factual, analytical, procedural, conceptual,
\* comparison has a strictly smaller count.
ClassifyByMaxScore ==
    op.name = "classify_query" =>
        LET scores == ScoreTable[op.query]
            best == ret.value
        IN /\ \A t \in DOMAIN scores : scores[t] <= scores[best]
           /\ scores[best] > 0 =>
                 \A t \in DOMAIN scores :
                     Rank(t) < Rank(best) => scores[t] < scores[best]

\* C14's cases: a query with one analytical and one comparison keyword is
\* analytical (the earlier of the tie), and a query with two comparison
\* keywords and one factual is comparison.
ClassifyWitness ==
    /\ op.name = "classify_query"
    /\ \/ op.query = "pochemu Sravni" /\ ret = Returned("analytical")
       \/ op.query = "kakoj luchshe vs" /\ ret = Returned("comparison")

\* C15: a query with no keyword of any type is routed as analytical, with
\* the broad strategy and top_k 7.
NoKeywordIsAnalytical ==
    (/\ op.name = "route"
     /\ \A t \in DOMAIN ScoreTable[op.query] : ScoreTable[op.query][t] = 0)
    => /\ ret.value.query_type = "analytical"
       /\ ret.value.strategy = "broad"
       /\ ret.value.top_k = 7

\* C15's case: "privet privet" holds no keyword and was routed broad.
NoKeywordWitness ==
    /\ op.name = "route"
    /\ op.query = "privet privet"
    /\ ret.value.strategy = "broad"

\* C16: whatever the query, route returns one of the five rows of the
\* fixed table, each with similarity_threshold 0.0.
RouteAgreesWithTable ==
    op.name = "route" =>
        <<ret.value.query_type, ret.value.strategy, ret.value.top_k,
          ret.value.similarity_threshold>>
        \in {<<"factual", "precise", 3, Frac(0, 1)>>,
             <<"conceptual", "precise", 3, Frac(0, 1)>>,
             <<"analytical", "broad", 7, Frac(0, 1)>>,
             <<"procedural", "broad", 7, Frac(0, 1)>>,
             <<"comparison", "comprehensive", 10, Frac(0, 1)>>}

\* C16's case: a conceptual query was routed, to precise with top_k 3.
RouteTableWitness ==
    /\ op.name = "route"
    /\ ret.value.query_type = "conceptual"
    /\ ret.value.top_k = 3

Float32Bits == 24

\* 2^23, 2^24 and 2^12: the bounds of a normal significand, and the limb
\* that keeps the products of two significands within 32-bit integers.
SignificandMin == Pow(2, Float32Bits - 1)
SignificandMax == Pow(2, Float32Bits)
Limb == Pow(2, Float32Bits \div 2)

\* A positive float32 is m * 2^e with 2^23 <= m < 2^24; zero has m = 0.
Float32(m, e) == [m |-> m, e |-> e]
Float32Zero == Float32(0, 0)

RECURSIVE Float32Normalize(_, _)
\* The float32 equal to m * 2^e for 0 < m < 2^24.
Float32Normalize(m, e) ==
    IF m >= SignificandMin THEN Float32(m, e)
    ELSE Float32Normalize(2 * m, e - 1)

\* Round to nearest, ties to even: whether the significand q with the
\* remainder rest, of which half is one half of a unit, goes up.
RoundsUp(q, rest, half) == rest > half \/ (rest = half /\ q % 2 = 1)

\* The significand q, put up by one when up holds, with exponent e.
Float32Round(q, e, up) ==
    IF ~up THEN Float32(q, e)
    ELSE IF q + 1 = SignificandMax THEN Float32(SignificandMin, e + 1)
    ELSE Float32(q + 1, e)

\* norm1 * norm2 in float32.  The 48-bit product is hi * 2^24 + lo.
Float32Mul(a, b) ==
    LET h1 == a.m \div Limb
        l1 == a.m % Limb
        h2 == b.m \div Limb
        l2 == b.m % Limb
        mid == h1 * l2 + l1 * h2
        low == (mid % Limb) * Limb + l1 * l2
        lo == low % SignificandMax
        hi == h1 * h2 + mid \div Limb + low \div SignificandMax
    IN IF hi >= SignificandMin
       THEN Float32Round(hi, a.e + b.e + Float32Bits,
                         RoundsUp(hi, lo, SignificandMin))
       ELSE Float32Round(2 * hi + lo \div SignificandMin,
                         a.e + b.e + Float32Bits - 1,
                         RoundsUp(2 * hi + lo \div SignificandMin,
                                  lo % SignificandMin, SignificandMin \div 2))

RECURSIVE Digits4(_)
\* The number of base-4 digits of n.
Digits4(n) == IF n = 0 THEN 0 ELSE 1 + Digits4(n \div 4)

RECURSIVE SqrtDigits(_, _, _, _, _)
\* The square root digit by digit: the root and the remainder of
\* n * 4^(24 - d) after its base-4 digits from the i-th on are taken in.
SqrtDigits(n, d, i, rest, root) ==
    IF i > Float32Bits THEN [root |-> root, rest |-> rest]
    ELSE LET digit == IF i <= d THEN (n \div Pow(4, d - i)) % 4 ELSE 0
         IN IF 4 * rest + digit >= 4 * root + 1
            THEN SqrtDigits(n, d, i + 1, 4 * rest + digit - (4 * root + 1),
                            2 * root + 1)
            ELSE SqrtDigits(n, d, i + 1, 4 * rest + digit, 2 * root)

\* np.linalg.norm of a float32 vector whose sum of squares is the integer
\* n < 2^24: sqrt(n) rounded to float32.  The root r of n * 4^(24 - d) has
\* 24 bits; it goes up when the remainder is more than r.
Float32Sqrt(n) ==
    IF n = 0 THEN Float32Zero
    ELSE LET s == SqrtDigits(n, Digits4(n), 1, 0, 0)
         IN Float32Round(s.root, Digits4(n) - Float32Bits, s.rest > s.root)

RECURSIVE DivBits(_, _, _, _)
\* Long division: n more bits of the quotient of rest / m.
DivBits(rest, m, q, n) ==
    IF n = 0 THEN [q |-> q, rest |-> rest]
    ELSE IF 2 * rest >= m THEN DivBits(2 * rest - m, m, 2 * q + 1, n - 1)
    ELSE DivBits(2 * rest, m, 2 * q, n - 1)

\* a / b in float32, for positive a and b.
Float32Div(a, b) ==
    LET s == IF a.m >= b.m THEN DivBits(a.m - b.m, b.m, 1, Float32Bits - 1)
             ELSE DivBits(a.m, b.m, 0, Float32Bits)
        e == IF a.m >= b.m THEN a.e - b.e - (Float32Bits - 1)
             ELSE a.e - b.e - Float32Bits
    IN Float32Round(s.q, e, RoundsUp(s.q, 2 * s.rest, b.m))

Abs(n) == IF n < 0 THEN -n ELSE n

\* A returned similarity: its sign and its magnitude.
Signed(sign, magnitude) == [sign |-> sign, magnitude |-> magnitude]
Float32One == Float32(SignificandMin, 1 - Float32Bits)

\* DocumentStore._cosine_similarity on vectors of small integers, in
\* float32 as numpy computes it.  The dot product and the sums of squares
\* are integers below 2^24, which float32 holds exactly; the square roots,
\* the product of the norms and the quotient are rounded.
CosineSimilarityFloat32(vec1, vec2) ==
    LET dot_product == Dot(vec1, vec2)
        norm1 == Float32Sqrt(Dot(vec1, vec1))
        norm2 == Float32Sqrt(Dot(vec2, vec2))
    IN IF norm1 = Float32Zero \/ norm2 = Float32Zero
       THEN Signed(0, Float32Zero)
       ELSE IF dot_product = 0 THEN Signed(0, Float32Zero)
       ELSE Signed(IF dot_product < 0 THEN -1 ELSE 1,
                   Float32Div(Float32Normalize(Abs(dot_product), 0),
                              Float32Mul(norm1, norm2)))

\* The components and the vectors the similarity is computed for.
Components == {-1, 0, 1, 3, 4}
CosineVectors == {<<x, y>> : x \in Components, y \in Components}

\* _cosine_similarity of every pair, computed once.
CosineTable ==
    [v \in CosineVectors \X CosineVectors |->
        CosineSimilarityFloat32(v[1], v[2])] @@ <<>>

\* A call of _cosine_similarity
CosineCall(vec1, vec2) ==
    /\ op' = [name |-> "_cosine_similarity", vec1 |-> vec1, vec2 |-> vec2]
    /\ ret' = Returned(CosineTable[<<vec1, vec2>>])
    /\ UNCHANGED <<storeVars, cache, now, botVars, rt>>

NextCosine == \E vec1 \in CosineVectors, vec2 \in CosineVectors : CosineCall(vec1, vec2)

SpecCosine == InitStore /\ [][NextCosine]_vars

\* The magnitude is at most 1.0.
AtMostOne(x) ==
    \/ x.m = 0
    \/ x.e < 1 - Float32Bits
    \/ x = Float32One

\* C28: _cosine_similarity returns a value in [-1, 1], 1 for two equal
\* vectors that are not zero, and 0.0 when either vector has norm zero.
CosineInUnitInterval ==
    op.name = "_cosine_similarity" =>
        /\ AtMostOne(ret.value.magnitude)
        /\ (op.vec1 = op.vec2 /\ Dot(op.vec1, op.vec1) # 0)
              => ret.value = Signed(1, Float32One)
        /\ (Dot(op.vec1, op.vec1) = 0 \/ Dot(op.vec2, op.vec2) = 0)
              => ret.value = Signed(0, Float32Zero)

\* The part of C28 that holds: 0.0 when either vector has norm zero.
CosineZeroNorm ==
    op.name = "_cosine_similarity" =>
        ((Dot(op.vec1, op.vec1) = 0 \/ Dot(op.vec2, op.vec2) = 0)
            => ret.value = Signed(0, Float32Zero))

\* ------------------------------ OpenAIService.extract_relevant_chunks

\* stop_words, transliterated like the router's keywords.
StopWords ==
    {"i", "v", "na", "s", "po", "dlya", "ot", "k", "iz", "chto", "kak",
     "eto", "a", "no", "ili"}

\* The characters str.split() and str.strip() take as white space.
Whitespace == {" ", "\n", "\t", "\r"}

\* The least room for which a paragraph is cut to fit: `if remaining > 500`.
TruncateMinimum == 500

\* text[:n]
Prefix(str, n) == SubSeq(str, 1, IF n < Len(str) THEN n ELSE Len(str))

RECURSIVE SkipWhitespace(_, _)
\* The first position from i on that holds no white space, Len(str) + 1
\* when there is none.
SkipWhitespace(str, i) ==
    IF i > Len(str) THEN i
    ELSE IF SubSeq(str, i, i) \in Whitespace THEN SkipWhitespace(str, i + 1)
    ELSE i

RECURSIVE SkipWhitespaceBack(_, _)
\* The last position up to j that holds no white space, 0 when there is none.
SkipWhitespaceBack(str, j) ==
    IF j < 1 THEN j
    ELSE IF SubSeq(str, j, j) \in Whitespace THEN SkipWhitespaceBack(str, j - 1)
    ELSE j

\* str.strip()
Strip(str) ==
    SubSeq(str, SkipWhitespace(str, 1), SkipWhitespaceBack(str, Len(str)))

RECURSIVE WordEnd(_, _)
\* The first position after i that holds white space, Len(str) + 1 when
\* there is none.
WordEnd(str, i) ==
    IF i > Len(str) THEN i
    ELSE IF SubSeq(str, i, i) \in Whitespace THEN i
    ELSE WordEnd(str, i + 1)

RECURSIVE WordsFrom(_, _)
\* set(str.split()) of the part of str from position i on
WordsFrom(str, i) ==
    LET start == SkipWhitespace(str, i)
    IN IF start > Len(str) THEN {}
       ELSE {SubSeq(str, start, WordEnd(str, start) - 1)}
               \cup WordsFrom(str, WordEnd(str, start))

\* query_words: the lower-case words of the query that are no stop word and
\* longer than two characters.
QueryWords(query) ==
    {w \in WordsFrom(Lower(query), 1) : w \notin StopWords /\ Len(w) > 2}

\* The positions of str where sub starts.
Occurrences(str, sub) ==
    {i \in 1..(Len(str) - Len(sub) + 1) : SubSeq(str, i, i + Len(sub) - 1) = sub}

\* The least position of occ that is not before from, 0 when there is none.
NextOccurrence(occ, from) ==
    IF \E i \in occ : i >= from
    THEN CHOOSE i \in occ : i >= from /\ \A j \in occ : j >= from => i <= j
    ELSE 0

RECURSIVE CountFrom(_, _, _)
\* The occurrences counted from left to right without overlap.
CountFrom(occ, width, from) ==
    IF NextOccurrence(occ, from) = 0 THEN 0
    ELSE 1 + CountFrom(occ, width, NextOccurrence(occ, from) + width)

\* str.count(sub) for a non-empty sub
Count(str, sub) == CountFrom(Occurrences(str, sub), Len(sub), 1)

RECURSIVE SplitFrom(_, _, _, _)
\* The pieces of str from position from on, cut at the occurrences.
SplitFrom(str, occ, width, from) ==
    IF NextOccurrence(occ, from) = 0 THEN <<SubSeq(str, from, Len(str))>>
    ELSE <<SubSeq(str, from, NextOccurrence(occ, from) - 1)>>
            \o SplitFrom(str, occ, width, NextOccurrence(occ, from) + width)

\* str.split(sep) for a non-empty sep
Split(str, sep) == SplitFrom(str, Occurrences(str, sep), Len(sep), 1)

RECURSIVE ReplaceNewlinesRange(_, _, _)
\* str.replace('\n', ' ') of the characters at positions lo..hi, by halves
ReplaceNewlinesRange(str, lo, hi) ==
    IF lo > hi THEN ""
    ELSE IF lo = hi
         THEN (IF SubSeq(str, lo, lo) = "\n" THEN " " ELSE SubSeq(str, lo, lo))
    ELSE ReplaceNewlinesRange(str, lo, (lo + hi) \div 2)
            \o ReplaceNewlinesRange(str, (lo + hi) \div 2 + 1, hi)

\* text.replace('\n', ' ')
ReplaceNewlines(str) == ReplaceNewlinesRange(str, 1, Len(str))

RECURSIVE SumCounts(_, _)
\* sum(para_lower.count(word) for word in query_words)
SumCounts(str, words) ==
    IF words = {} THEN 0
    ELSE LET w == CHOOSE x \in words : TRUE
         IN Count(str, w) + SumCounts(str, words \ {w})

\* sum(1 for word in query_words if word in para_lower)
WordsContained(str, words) == Cardinality({w \in words : Contains(str, w)})

\* A paragraph's score, in tenths: the number of query words it holds plus
\* 0.1 for each occurrence.  With fewer than ten occurrences the floating
\* point scores are ordered as these integers are.
ParagraphScore(para, words) ==
    10 * WordsContained(Lower(para), words) + SumCounts(Lower(para), words)

\* A sentence's score, in tenths.
SentenceScore(sentence, words) == 10 * WordsContained(Lower(sentence), words)

RECURSIVE ScoredParagraphs(_, _, _)
\* The first loop: the stripped paragraphs from position k on whose score
\* is positive.
ScoredParagraphs(paragraphs, words, k) ==
    IF k > Len(paragraphs) THEN <<>>
    ELSE (IF Strip(paragraphs[k]) # "" /\ ParagraphScore(paragraphs[k], words) > 0
          THEN <<[score |-> ParagraphScore(paragraphs[k], words),
                  para |-> Strip(paragraphs[k])]>>
          ELSE <<>>)
         \o ScoredParagraphs(paragraphs, words, k + 1)

RECURSIVE ScoredSentences(_, _, _)
\* The second loop: the stripped sentences from position k on whose score
\* is positive, each with its full stop put back.
ScoredSentences(sentences, words, k) ==
    IF k > Len(sentences) THEN <<>>
    ELSE (IF Strip(sentences[k]) # "" /\ SentenceScore(sentences[k], words) > 0
          THEN <<[score |-> SentenceScore(sentences[k], words),
                  para |-> Strip(sentences[k]) \o "."]>>
          ELSE <<>>)
         \o ScoredSentences(sentences, words, k + 1)

RECURSIVE InsertByScore(_, _)
\* Puts x after every element whose score is not smaller.
InsertByScore(sorted, x) ==
    IF sorted = <<>> THEN <<x>>
    ELSE IF Head(sorted).score >= x.score
         THEN <<Head(sorted)>> \o InsertByScore(Tail(sorted), x)
         ELSE <<x>> \o sorted

RECURSIVE SortByScore(_)
\* scored_paragraphs.sort(key=lambda x: x[0], reverse=True): stable
SortByScore(seq) ==
    IF seq = <<>> THEN <<>>
    ELSE InsertByScore(SortByScore(SubSeq(seq, 1, Len(seq) - 1)), seq[Len(seq)])

RECURSIVE TotalLength(_)
\* total_length: the lengths of the chunks appended so far
TotalLength(chunks) ==
    IF chunks = <<>> THEN 0 ELSE Len(Head(chunks)) + TotalLength(Tail(chunks))

RECURSIVE TakeChunksNoMinimum(_, _, _, _, _)
\* The loop cutting a paragraph to whatever room is left, however little.
TakeChunksNoMinimum(scored, k, chunks, max_chunks, max_total_length) ==
    IF k > Len(scored) THEN chunks
    ELSE IF /\ TotalLength(chunks) + Len(scored[k].para) <= max_total_length
            /\ Len(chunks) < max_chunks
         THEN TakeChunksNoMinimum(scored, k + 1, Append(chunks, scored[k].para),
                                  max_chunks, max_total_length)
    ELSE IF Len(chunks) < max_chunks
         THEN Append(chunks,
                     Prefix(scored[k].para,
                            max_total_length - TotalLength(chunks))
                         \o "...")
    ELSE chunks

RECURSIVE TakeChunks(_, _, _, _, _)
\* The loop over the sorted paragraphs from position k on, with the chunks
\* appended so far.
TakeChunks(scored, k, chunks, max_chunks, max_total_length) ==
    IF k > Len(scored) THEN chunks
    ELSE IF /\ TotalLength(chunks) + Len(scored[k].para) <= max_total_length
            /\ Len(chunks) < max_chunks
         THEN TakeChunks(scored, k + 1, Append(chunks, scored[k].para),
                         max_chunks, max_total_length)
    ELSE IF Len(chunks) < max_chunks
         THEN (IF max_total_length - TotalLength(chunks) > TruncateMinimum
               THEN Append(chunks,
                           Prefix(scored[k].para,
                                  max_total_length - TotalLength(chunks))
                               \o "...")
               ELSE TakeChunks(scored, k + 1, chunks, max_chunks,
                               max_total_length))
    ELSE chunks

\* The end of the method without its last resort.
ChunksNoFallback(chunks, text, chunk_size) == chunks

\* if not chunks: chunks.append(text[:chunk_size])
ChunksOrPrefix(chunks, text, chunk_size) ==
    IF chunks = <<>> THEN <<Prefix(text, chunk_size)>> ELSE chunks

\* scored_paragraphs after the sort: the paragraphs that score, or else
\* the sentences that score, best first.
SortedCandidates(text, query) ==
    LET query_words == QueryWords(query)
        by_paragraph == ScoredParagraphs(Split(text, "\n\n"), query_words, 1)
    IN SortByScore(IF by_paragraph # <<>> THEN by_paragraph
                   ELSE ScoredSentences(Split(ReplaceNewlines(text), "."),
                                        query_words, 1))

\* OpenAIService.extract_relevant_chunks
ExtractRelevantChunks(text, query, max_chunks, chunk_size) ==
    ChunksOrPrefix(TakeChunks(SortedCandidates(text, query), 1, <<>>,
                              max_chunks, chunk_size * max_chunks),
                   text, chunk_size)

\* Sixty-four characters without a query word or a full stop.
Filler ==
    "lorem ipsum dolor sit amet consectetur adipiscing elit sed do ei"

\* A paragraph of 326 characters and one of 1031.
MiddleParagraph == "Exam. " \o Filler \o Filler \o Filler \o Filler \o Filler
LongParagraph ==
    "Grant. " \o Filler \o Filler \o Filler \o Filler \o Filler \o Filler
        \o Filler \o Filler \o Filler \o Filler \o Filler \o Filler
        \o Filler \o Filler \o Filler \o Filler

ChunkTexts ==
    {"", "x", " ", "\n\n", "Exam rules.\n\nGrant info. Exam dates.",
     LongParagraph,
     "Exam grant.\n\n" \o LongParagraph,
     MiddleParagraph \o "\n\n" \o MiddleParagraph \o "\n\n  Exam ok \n",
     "q %1a$.$1a& %1a$.y"}

ChunkQueries == {"", "chto na", "ab v", "zzz", "exam", "Exam  GRANT", "%1a&"}
ChunkCounts == {1, 2}
ChunkSizes == {1, 300}

ChunkInputs ==
    [text : ChunkTexts, query : ChunkQueries, max_chunks : ChunkCounts,
     chunk_size : ChunkSizes]

\* extract_relevant_chunks of every input, computed once: @@ builds the
\* whole function where [i \in S |-> e] alone would compute e at each use.
ChunksTable ==
    [i \in ChunkInputs |->
        ExtractRelevantChunks(i.text, i.query, i.max_chunks, i.chunk_size)]
    @@ <<>>

\* A call of extract_relevant_chunks
ExtractCall(text, query, max_chunks, chunk_size) ==
    /\ op' = [name |-> "extract_relevant_chunks", text |-> text,
              query |-> query, max_chunks |-> max_chunks,
              chunk_size |-> chunk_size]
    /\ ret' = Returned(ChunksTable[[text |-> text, query |-> query,
                                    max_chunks |-> max_chunks,
                                    chunk_size |-> chunk_size]])
    /\ UNCHANGED <<storeVars, cache, now, botVars, rt>>

NextChunks ==
    \E i \in ChunkInputs :
        ExtractCall(i.text, i.query, i.max_chunks, i.chunk_size)

SpecChunks == InitStore /\ [][NextChunks]_vars

\* C23: for a non-empty text and any query, extract_relevant_chunks
\* returns at least one chunk and no chunk is the empty string.
ChunksNeverEmpty ==
    (op.name = "extract_relevant_chunks" /\ op.text # "") =>
        /\ "value" \in DOMAIN ret
        /\ Len(ret.value) >= 1
        /\ \A k \in 1..Len(ret.value) : ret.value[k] # ""

\* C23's case: a query of stop words and short words only, on a text of
\* several paragraphs, gave the start of the text as the only chunk.
ChunksWitness ==
    /\ op.name = "extract_relevant_chunks"
    /\ op.query = "chto na"
    /\ Len(op.text) > op.chunk_size
    /\ ret = Returned(<<Prefix(op.text, op.chunk_size)>>)

\* A paragraph too long for the room left was cut and closed with "...".
ChunksTruncatedWitness ==
    /\ op.name = "extract_relevant_chunks"
    /\ Len(ret.value) = 2
    /\ Len(ret.value[2]) > TruncateMinimum
    /\ Len(ret.value[1]) + Len(ret.value[2]) = op.chunk_size * op.max_chunks + 3

\* A paragraph that did not fit was passed over and a later one appended.
ChunksSkippedWitness ==
    /\ op.name = "extract_relevant_chunks"
    /\ ret.value = <<MiddleParagraph, "Exam ok">>

\* The candidates of the call observed, as they were sorted.
CallCandidates == SortedCandidates(op.text, op.query)

\* No paragraph of the text scores: the candidates are sentences.
NoParagraphScores(text, query) ==
    ScoredParagraphs(Split(text, "\n\n"), QueryWords(query), 1) = <<>>

\* The paragraph formula applied to a candidate sentence, the full stop
\* that was put back left off.
AsParagraph(candidate, query) ==
    ParagraphScore(SubSeq(candidate.para, 1, Len(candidate.para) - 1),
                   QueryWords(query))

\* C34: when no paragraph scores, the sentences are ranked by the
\* paragraph formula, the words present plus a tenth of the occurrences: a
\* sentence never stands before one that this formula scores higher.
SentencesRankedAsParagraphs ==
    (op.name = "extract_relevant_chunks"
        /\ NoParagraphScores(op.text, op.query)) =>
        \A j \in 1..Len(CallCandidates), k \in 1..Len(CallCandidates) :
            j < k => AsParagraph(CallCandidates[j], op.query)
                        >= AsParagraph(CallCandidates[k], op.query)

\* What holds of C34: the sentences are ranked by the number of query
\* words present alone.
SentencesRankedByWords ==
    (op.name = "extract_relevant_chunks"
        /\ NoParagraphScores(op.text, op.query)) =>
        \A j \in 1..Len(CallCandidates), k \in 1..Len(CallCandidates) :
            j < k => CallCandidates[j].score >= CallCandidates[k].score

\* C32: the chunks returned are at most max_chunks and their combined
\* length, the mark of a cut included, is at most chunk_size * max_chunks.
ChunksWithinBudget ==
    op.name = "extract_relevant_chunks" =>
        /\ Len(ret.value) <= op.max_chunks
        /\ TotalLength(ret.value) <= op.chunk_size * op.max_chunks

\* What holds of C32: the number of chunks, and the combined length up to
\* the three characters of the mark.
ChunksWithinBudgetAndMark ==
    op.name = "extract_relevant_chunks" =>
        /\ Len(ret.value) <= op.max_chunks
        /\ TotalLength(ret.value) <= op.chunk_size * op.max_chunks + 3

\* chunk is one of the candidates, whole.
IsWhole(chunk) ==
    \E k \in 1..Len(CallCandidates) : CallCandidates[k].para = chunk

\* chunk is the first characters of a longer candidate closed with "...".
IsCut(chunk) ==
    /\ Len(chunk) >= 3
    /\ \E k \in 1..Len(CallCandidates) :
          /\ Len(CallCandidates[k].para) > Len(chunk) - 3
          /\ chunk = Prefix(CallCandidates[k].para, Len(chunk) - 3) \o "..."

MaxIndexed == 6

\* search_k = min(top_k * 5, ...)
SearchFactor == 5

\* The embedding of the query, a document embedding at distance 0 from it
\* and one at distance 20.
QueryVector == <<1, 0>>
NearVector == <<1, 0>>
FarVector == <<3, 4>>

\* What is added in the runs: documents of user 1 far from the query and
\* documents of user 2 near it.
IndexedInputs ==
    {[user_id |-> 1, embedding |-> FarVector],
     [user_id |-> 2, embedding |-> NearVector]}

\* _build_index: valid_doc_indices, the positions of the documents that
\* carry an embedding, in order; it is _index_to_doc_map.
IndexToDocMap(docs) ==
    SelectSeq([i \in 1..Len(docs) |-> i],
              LAMBDA i : docs[i].embedding # NoEmbedding)

\* IndexFlatL2's distance: the squared Euclidean distance.
L2Squared(a, b) ==
    (a[1] - b[1]) * (a[1] - b[1]) + (a[2] - b[2]) * (a[2] - b[2])

\* What index.search may answer for search_k neighbours: the first search_k
\* of the indexed vectors in an order of ascending distance.  The order
\* among vectors at the same distance is the library's.
SearchOrders(docs, query_vector) ==
    LET map == IndexToDocMap(docs)
    IN {p \in Permutations(1..Len(map)) :
           \A i \in 1..Len(map), j \in 1..Len(map) :
               i < j => L2Squared(docs[map[p[i]]].embedding, query_vector)
                           <= L2Squared(docs[map[p[j]]].embedding, query_vector)}

RECURSIVE CollectOwn(_, _, _, _, _, _, _)
\* The loop over the neighbours from position k on: the caller's documents
\* among them, until top_k are collected.
CollectOwn(docs, indices, k, user_id, top_k, query_vector, results) ==
    IF k > Len(indices) \/ Len(results) >= top_k THEN results
    ELSE LET doc == docs[IndexToDocMap(docs)[indices[k]]]
         IN CollectOwn(docs, indices, k + 1, user_id, top_k, query_vector,
                       IF doc.user_id = user_id
                       THEN Append(results,
                                   [id |-> doc.id,
                                    distance |-> L2Squared(doc.embedding,
                                                           query_vector)])
                       ELSE results)

\* DocumentStore.search_documents with the order the index answered in.
IndexedSearch(docs, query_embedding, user_id, top_k, order) ==
    IF docs = <<>> \/ IndexToDocMap(docs) = <<>> THEN <<>>
    ELSE IF query_embedding = NoEmbedding THEN <<>>
    ELSE LET search_k == Min(top_k * SearchFactor, Len(IndexToDocMap(docs)))
         IN CollectOwn(docs, [i \in 1..search_k |-> order[i]], 1, user_id,
                       top_k, query_embedding, <<>>)

\* DocumentStore.add_document: a failed embedding adds nothing.
IndexedAdd(user_id, embedding) ==
    /\ Len(documents) < MaxIndexed
    /\ IF embedding = NoEmbedding
       THEN /\ ret' = Returned(FALSE)
            /\ UNCHANGED documents
       ELSE /\ ret' = Returned(TRUE)
            /\ documents' = Append(documents,
                                   [id |-> Len(documents) + 1,
                                    user_id |-> user_id,
                                    embedding |-> embedding])
    /\ op' = [name |-> "DocumentStore.add_document", user_id |-> user_id,
              embedding |-> embedding]
    /\ UNCHANGED <<user_index, metadata, files, nextId, cache, now, botVars, rt>>

\* A call of DocumentStore.search_documents
IndexedSearchCall(user_id, query_embedding, top_k) ==
    /\ \E order \in SearchOrders(documents, QueryVector) :
          ret' = Returned(IndexedSearch(documents, query_embedding, user_id,
                                        top_k, order))
    /\ op' = [name |-> "DocumentStore.search_documents", user_id |-> user_id,
              query_embedding |-> query_embedding, top_k |-> top_k]
    /\ UNCHANGED <<storeVars, cache, now, botVars, rt>>

NextIndexed ==
    \/ \E i \in IndexedInputs : IndexedAdd(i.user_id, i.embedding)
    \/ \E u \in Users : IndexedAdd(u, NoEmbedding)
    \/ \E u \in Users, q \in {QueryVector, NoEmbedding} :
          IndexedSearchCall(u, q, 1)

SpecIndexed == InitStore /\ [][NextIndexed]_vars

\* The caller's documents that the index holds.
OwnIndexed(user_id) ==
    {i \in 1..Len(documents) :
        documents[i].user_id = user_id /\ documents[i].embedding # NoEmbedding}

\* C36: a search is decided by the caller's own documents: it returns the
\* top_k nearest of them, all of them if they are fewer, so documents of
\* other users take none away and a caller who has an indexed document and
\* an embeddable query gets a result.
OwnDocumentsDecide ==
    (op.name = "DocumentStore.search_documents"
        /\ op.query_embedding # NoEmbedding) =>
        LET own == OwnIndexed(op.user_id)
            found == {ret.value[k].id : k \in 1..Len(ret.value)}
        IN /\ found \subseteq own
           /\ Len(ret.value) = Min(op.top_k, Cardinality(own))
           /\ \A i \in own \ found, k \in 1..Len(ret.value) :
                 L2Squared(documents[i].embedding, op.query_embedding)
                     >= ret.value[k].distance

\* What holds of C36: a search returns documents of the caller only, at
\* most top_k of them, nearest first.
OwnDocumentsOnly ==
    (op.name = "DocumentStore.search_documents") =>
        /\ \A k \in 1..Len(ret.value) : ret.value[k].id \in OwnIndexed(op.user_id)
        /\ Len(ret.value) <= op.top_k
        /\ \A j \in 1..Len(ret.value), k \in 1..Len(ret.value) :
              j < k => ret.value[j].distance <= ret.value[k].distance

\* ----------------------------------------------- ConversationManager

\* self.conversations is a defaultdict(list): a user without a key has [].
HistoryOf(h, user_id) == IF user_id \in DOMAIN h THEN h[user_id] ELSE <<>>

SetHistory(h, user_id, turns) ==
    [u \in DOMAIN h \cup {user_id} |-> IF u = user_id THEN turns ELSE h[u]]

\* add_user_message dropping one entry when the log is too long.
AddUserMessageDropOne(h, user_id, message) ==
    LET turns == Append(HistoryOf(h, user_id),
                        [role |-> "user", content |-> message])
    IN SetHistory(h, user_id,
                  IF Len(turns) > MaxHistory * 2
                  THEN SubSeq(turns, 2, Len(turns)) ELSE turns)

\* ConversationManager.add_user_message
AddUserMessage(h, user_id, message) ==
    LET turns == Append(HistoryOf(h, user_id),
                        [role |-> "user", content |-> message])
    IN SetHistory(h, user_id,
                  IF Len(turns) > MaxHistory * 2
                  THEN SubSeq(turns, 3, Len(turns)) ELSE turns)

\* ConversationManager.add_assistant_message
AddAssistantMessage(h, user_id, message) ==
    SetHistory(h, user_id,
               Append(HistoryOf(h, user_id),
                      [role |-> "assistant", content |-> message]))

\* The number of the next entry of a user's log when every appended entry
\* carries its number as content, counted from 1.
NextSerial(user_id) ==
    LET log == HistoryOf(history, user_id)
    IN IF log = <<>> THEN 1 ELSE log[Len(log)].content + 1

\* handle_message's first append (bot_simple.py:448): the user's message,
\* after the previous request of this user appended its answer.
UserTurn(user_id) ==
    LET log == HistoryOf(history, user_id)
    IN /\ IF log = <<>> THEN TRUE ELSE log[Len(log)].role = "assistant"
       /\ NextSerial(user_id) < 2 * MaxTurns
       /\ \E message \in {NextSerial(user_id)} :
             /\ history' = AddUserMessage(history, user_id, message)
             /\ op' = [name |-> "add_user_message", user_id |-> user_id,
                       message |-> message]
       /\ ret' = None
       /\ UNCHANGED <<storeVars, cache, now, user_data, routed, inflight, rt>>

\* handle_message's second append (bot_simple.py:449): the answer.
AssistantTurn(user_id) ==
    LET log == HistoryOf(history, user_id)
    IN /\ IF log = <<>> THEN FALSE ELSE log[Len(log)].role = "user"
       /\ \E message \in {NextSerial(user_id)} :
             /\ history' = AddAssistantMessage(history, user_id, message)
             /\ op' = [name |-> "add_assistant_message", user_id |-> user_id,
                       message |-> message]
       /\ ret' = None
       /\ UNCHANGED <<storeVars, cache, now, user_data, routed, inflight, rt>>

NextConversation ==
    \/ \E u \in Users : UserTurn(u)
    \/ \E u \in Users : AssistantTurn(u)

SpecConversation == InitStore /\ [][NextConversation]_vars

\* A call of add_user_message by any caller, followed while the log is
\* not more than two entries over 2 * max_history.
AddUserMessageCall(user_id, message) ==
    /\ Len(HistoryOf(history, user_id)) <= 2 * MaxHistory + 1
    /\ history' = AddUserMessage(history, user_id, message)
    /\ op' = [name |-> "add_user_message", user_id |-> user_id,
              message |-> message]
    /\ ret' = None
    /\ UNCHANGED <<storeVars, cache, now, user_data, routed, inflight, rt>>

\* A call of add_assistant_message by any caller.
AddAssistantMessageCall(user_id, message) ==
    /\ Len(HistoryOf(history, user_id)) <= 2 * MaxHistory + 1
    /\ history' = AddAssistantMessage(history, user_id, message)
    /\ op' = [name |-> "add_assistant_message", user_id |-> user_id,
              message |-> message]
    /\ ret' = None
    /\ UNCHANGED <<storeVars, cache, now, user_data, routed, inflight, rt>>

\* The two methods called in any order.
NextConversationCalls ==
    \/ \E u \in Users, m \in {"m"} : AddUserMessageCall(u, m)
    \/ \E u \in Users, m \in {"m"} : AddAssistantMessageCall(u, m)

SpecConversationCalls == InitStore /\ [][NextConversationCalls]_vars

\* C35: whatever the order of the calls, a log holds at most
\* 2 * max_history entries and does not begin with an assistant entry.
LogBoundedInAnyOrder ==
    \A u \in DOMAIN history :
        /\ Len(history[u]) <= 2 * MaxHistory
        /\ history[u] # <<>> => history[u][1].role # "assistant"

\* C24: with the turns appended as the pipeline appends them, every log
\* has at most 2 * max_history entries, starts with a user entry, and is the
\* unbroken tail of the turns appended so far, ending with the latest one,
\* with an even number of the oldest turns dropped.
HistoryWindow ==
    /\ \A u \in DOMAIN history :
          LET log == history[u]
          IN /\ Len(log) <= 2 * MaxHistory
             /\ log # <<>> =>
                   /\ log[1].role = "user"
                   /\ log[1].content % 2 = 1
             /\ \A k \in 1..(Len(log) - 1) :
                   log[k + 1].content = log[k].content + 1
             /\ \A k \in 1..Len(log) :
                   log[k].role = IF log[k].content % 2 = 1
                                 THEN "user" ELSE "assistant"
    /\ op.name \in {"add_user_message", "add_assistant_message"} =>
          LET log == history[op.user_id]
          IN log[Len(log)].content = op.message

\* C24's case: a user message was appended to a full log and the two oldest
\* entries were dropped.
HistoryWindowWitness ==
    /\ op.name = "add_user_message"
    /\ op.message > 2 * MaxHistory
    /\ LET log == history[op.user_id]
       IN /\ Len(log) = 2 * MaxHistory - 1
          /\ log[1].content = op.message - Len(log) + 1

\* ------------------------------------- UniversityDocumentBot: queries

BotUsers == {1}
BotVectors == {<<1, 0>>}

\* handle_message's doc_context of one search result whose text is shorter
\* than 5000 characters (every text here is).
DocContext(doc) ==
    "Dokument: " \o doc.title \o "\nRezume: " \o doc.summary
        \o "\n\nSoderzhanie:\n" \o doc.full_text

RECURSIVE JoinContexts(_)
\* "\n\n---\n\n".join(context_parts); every document fits the token budget.
JoinContexts(docs) ==
    IF docs = <<>> THEN ""
    ELSE IF Len(docs) = 1 THEN DocContext(docs[1])
    ELSE DocContext(docs[1]) \o "\n\n---\n\n" \o JoinContexts(Tail(docs))

\* A test of the cached answer that takes every string, "" too, for a hit.
IsCacheHitNotNone(cached_answer) == cached_answer # None

\* The apology generate_answer returns when the API call fails
\* (openai_service.py:161).
GenerationFailed == "Izvinite, proizoshla oshibka pri generacii otveta."

\* The message generate_answer returns when the API refuses the context
\* for its length (openai_service.py:159).
ContextTooLarge == "Dokumenty slishkom bolshie. Poprobuj zadat bolee konkretnyj vopros ili zagruzi dokumenty menshego razmera."

\* The strings generate_answer returns from its except block.
FailureMessages == {ContextTooLarge, GenerationFailed}

\* What generate_answer may return to the bot: an answer, the empty
\* string, a failure message.
BotAnswers == Answers \cup FailureMessages

\* A test of the cached answer that takes a failure message for a miss.
IsCacheHitUnlessFailed(cached_answer) ==
    cached_answer # None /\ cached_answer.value \notin {""} \cup FailureMessages

\* `if cached_answer:`: None and the empty string are both false.
IsCacheHit(cached_answer) ==
    cached_answer # None /\ cached_answer.value # ""

\* A handler of the awaited text that pops the two keys only when the
\* document was stored.
HandleDocTextKeepsFlag(user_id, text, summary, embedding) ==
    /\ user_data[user_id].waiting_for_doc_text
    /\ CanAdd
    /\ user_data' = IF AddResult(embedding)
                    THEN [user_data EXCEPT
                             ![user_id] = [waiting_for_doc_text |-> FALSE]]
                    ELSE user_data
    /\ AddEffect(user_id, user_data[user_id].doc_title, text, summary, embedding)
    /\ op' = [name |-> "handle_message", user_id |-> user_id, query |-> text,
              step |-> "document"]
    /\ ret' = Returned(AddResult(embedding))
    /\ UNCHANGED <<cache, now, history, routed, inflight, rt>>

\* handle_message for a user in the waiting_for_doc_text state: the message
\* is the body of the document announced by /add_doc.
HandleDocText(user_id, text, summary, embedding) ==
    /\ user_data[user_id].waiting_for_doc_text
    /\ CanAdd
    /\ user_data' = [user_data EXCEPT ![user_id] = [waiting_for_doc_text |-> FALSE]]
    /\ AddEffect(user_id, user_data[user_id].doc_title, text, summary, embedding)
    /\ op' = [name |-> "handle_message", user_id |-> user_id, query |-> text,
              step |-> "document"]
    /\ ret' = Returned(AddResult(embedding))
    /\ UNCHANGED <<cache, now, history, routed, inflight, rt>>

\* The steps of an answered query in the order handle_message takes them,
\* with or without the generation call and the cache write after it.
PipelineSteps(generation) ==
    <<"route", "search_documents", "context", "cache_get">>
        \o (IF generation THEN <<"generate_answer", "cache_set">> ELSE <<>>)
        \o <<"add_user_message", "add_assistant_message">>

\* handle_message's try block (bot_simple.py:368-449), which holds no
\* await before the reply is sent: route, search, context, cache lookup,
\* generation and cache write unless the cached answer is true, and the two
\* appends.  query_embedding is what get_embedding answered for the query,
\* generated what generate_answer returns if called, written whether the
\* cache file can be written.  lookup is what the cache lookup returned.
QueryPipeline(user_id, query, query_embedding, generated, written) ==
    LET routing == RouteTable[query]
        relevant_docs == SearchResults(user_id, query_embedding, routing.top_k,
                                       routing.similarity_threshold)
        context == JoinContexts(relevant_docs)
        key == GenerateKey(query, context, user_id)
        cached_answer == GetValue(cache, key, now)
        afterGet == GetEffect(cache, key, now)
        base == [name |-> "handle_message", user_id |-> user_id, query |-> query]
    IN IF relevant_docs = <<>>
       THEN /\ op' = base @@ [step |-> "nothing_found"]
            /\ ret' = None
            /\ UNCHANGED <<storeVars, cache, history, user_data, routed>>
       ELSE IF IsCacheHit(cached_answer)
       THEN /\ op' = base @@ [step |-> "answered", context |-> context,
                              is_cached |-> TRUE, lookup |-> cached_answer,
                              steps |-> PipelineSteps(FALSE)]
            /\ ret' = cached_answer
            /\ cache' = afterGet
            /\ history' = AddAssistantMessage(
                              AddUserMessage(history, user_id, query),
                              user_id, cached_answer.value)
            /\ UNCHANGED <<storeVars, user_data, routed>>
       ELSE /\ key \in DOMAIN afterGet \/ Cardinality(DOMAIN afterGet) < MaxCache
            /\ op' = base @@ [step |-> "answered", context |-> context,
                              is_cached |-> FALSE, lookup |-> cached_answer,
                              steps |-> PipelineSteps(TRUE)]
            /\ ret' = Returned(generated)
            /\ cache' = IF written
                        THEN PutKey(afterGet, key,
                                    CacheData(query, context, user_id,
                                              generated, now))
                        ELSE afterGet
            /\ history' = AddAssistantMessage(
                              AddUserMessage(history, user_id, query),
                              user_id, generated)
            /\ UNCHANGED <<storeVars, user_data, routed>>

\* A handler that appends the question to the history before it looks for
\* the user's documents.
HandleQueryLogsFirst(user_id, query, query_embedding, generated, written) ==
    /\ ~user_data[user_id].waiting_for_doc_text
    /\ LET user_docs == GetUserDocuments(user_id)
           base == [name |-> "handle_message", user_id |-> user_id, query |-> query]
       IN IF user_docs = Raised("IndexError")
          THEN /\ op' = base @@ [step |-> "raised"]
               /\ ret' = user_docs
               /\ UNCHANGED <<storeVars, cache, history, user_data, routed>>
          ELSE IF user_docs.value = <<>>
          THEN /\ op' = base @@ [step |-> "no_documents"]
               /\ ret' = None
               /\ history' = AddUserMessage(history, user_id, query)
               /\ UNCHANGED <<storeVars, cache, user_data, routed>>
          ELSE QueryPipeline(user_id, query, query_embedding, generated, written)
    /\ UNCHANGED <<now, rt, inflight>>

\* handle_message for a question, run from its first line to its last
\* without another handler in between.
HandleQuery(user_id, query, query_embedding, generated, written) ==
    /\ ~user_data[user_id].waiting_for_doc_text
    /\ LET user_docs == GetUserDocuments(user_id)
           base == [name |-> "handle_message", user_id |-> user_id, query |-> query]
       IN IF user_docs = Raised("IndexError")
          THEN /\ op' = base @@ [step |-> "raised"]
               /\ ret' = user_docs
               /\ UNCHANGED <<storeVars, cache, history, user_data, routed>>
          ELSE IF user_docs.value = <<>>
          THEN /\ op' = base @@ [step |-> "no_documents"]
               /\ ret' = None
               /\ UNCHANGED <<storeVars, cache, history, user_data, routed>>
          ELSE QueryPipeline(user_id, query, query_embedding, generated, written)
    /\ UNCHANGED <<now, rt, inflight>>

\* UniversityDocumentBot.handle_message
HandleMessage(user_id, text, summary, embedding, generated, written) ==
    \/ HandleDocText(user_id, text, summary, embedding)
    \/ HandleQuery(user_id, text, embedding, generated, written)

\* /add_doc <title>: the next message of the user is the document's text.
AddTextDocumentCommand(user_id, title) ==
    /\ user_data' = [user_data EXCEPT ![user_id] =
                        [waiting_for_doc_text |-> TRUE, doc_title |-> title]]
    /\ op' = [name |-> "add_text_document", user_id |-> user_id]
    /\ ret' = None
    /\ UNCHANGED <<storeVars, cache, now, history, routed, inflight, rt>>

\* /delete <id>
DeleteCommand(user_id, document_id) == DeleteDocument(document_id, user_id)

NextBot ==
    \/ \E u \in BotUsers, q \in BotQueries, sm \in Summaries,
          e \in BotVectors \cup {NoEmbedding}, a \in BotAnswers :
          HandleMessage(u, q, sm, e, a, TRUE)  \* the cache directory is writable
    \/ \E u \in BotUsers, t \in Titles : AddTextDocumentCommand(u, t)
    \/ \E u \in BotUsers, i \in 1..MaxIds : DeleteCommand(u, i)
    \/ Tick

SpecBot == InitStore /\ [][NextBot]_vars

\* ---------------------------- UniversityDocumentBot: two users

\* The titles given to /add_doc.
WaitingTitles == {"t", "lekcii"}

\* /add_doc and text messages of two users, at one instant; every
\* generation answers "r" and the cache directory is writable.
NextWaiting ==
    \/ \E u \in Users, t \in WaitingTitles : AddTextDocumentCommand(u, t)
    \/ \E u \in Users, q \in BotQueries, sm \in Summaries,
          e \in BotVectors \cup {NoEmbedding} :
          HandleMessage(u, q, sm, e, "r", TRUE)

SpecWaiting == InitStore /\ [][NextWaiting]_vars

\* ---------------------------- UniversityDocumentBot: requests in flight

\* The questions that are followed from their arrival to their answer.
MaxRequests == 2
Requests == 1..MaxRequests

\* handle_message from its first line to the await of the "searching"
\* reply (bot_simple.py:344-366).  A call that finds no documents replies
\* and returns; one whose get_user_documents raises ends there.
BeginQuery(r, user_id, query) ==
    /\ r \notin DOMAIN inflight
    /\ ~user_data[user_id].waiting_for_doc_text
    /\ LET user_docs == GetUserDocuments(user_id)
           base == [name |-> "handle_message", user_id |-> user_id, query |-> query]
       IN IF user_docs = Raised("IndexError")
          THEN /\ op' = base @@ [step |-> "raised"]
               /\ ret' = user_docs
               /\ UNCHANGED inflight
          ELSE IF user_docs.value = <<>>
          THEN /\ op' = base @@ [step |-> "no_documents"]
               /\ ret' = None
               /\ UNCHANGED inflight
          ELSE /\ op' = base @@ [step |-> "searching"]
               /\ ret' = None
               /\ inflight' = [q \in DOMAIN inflight \cup {r} |->
                                  IF q = r
                                  THEN [user_id |-> user_id, query |-> query,
                                        pc |-> "searching"]
                                  ELSE inflight[q]]
    /\ UNCHANGED <<storeVars, cache, now, history, user_data, routed, rt>>

\* The call resumes after the await and runs its try block to the next
\* await: the reply that nothing was found, after which it returns, or the
\* reply that carries the answer.
ProcessQuery(r, query_embedding, generated, written) ==
    /\ r \in DOMAIN inflight
    /\ inflight[r].pc = "searching"
    /\ \E user_id \in BotUsers, query \in BotQueries :
          /\ user_id = inflight[r].user_id
          /\ query = inflight[r].query
          /\ QueryPipeline(user_id, query, query_embedding, generated, written)
    /\ inflight' = IF op'.step = "answered"
                   THEN [inflight EXCEPT
                            ![r] = [user_id |-> op'.user_id, query |-> op'.query,
                                    pc |-> "answered", context |-> op'.context,
                                    is_cached |-> op'.is_cached]]
                   ELSE [q \in DOMAIN inflight \ {r} |-> inflight[q]]
    /\ UNCHANGED <<now, rt>>

\* The reply with the answer was sent (bot_simple.py:464): the call ends,
\* and what it met stays on record.
FinishQuery(r) ==
    /\ r \in DOMAIN inflight
    /\ inflight[r].pc = "answered"
    /\ inflight' = [inflight EXCEPT ![r].pc = "done"]
    /\ op' = [name |-> "reply_text", user_id |-> inflight[r].user_id]
    /\ ret' = None
    /\ UNCHANGED <<storeVars, cache, now, history, user_data, routed, rt>>

\* Calls of handle_message, one after the other or interleaved at their
\* awaits, at one instant and with a writable cache directory.
NextRequests ==
    \/ \E u \in BotUsers, t \in Titles, x \in Texts, sm \in Summaries,
          e \in BotVectors :
          AddDocument(u, t, x, sm, e)
    \/ \E r \in Requests, u \in BotUsers, q \in BotQueries : BeginQuery(r, u, q)
    \/ \E r \in Requests, e \in BotVectors, a \in Answers :
          ProcessQuery(r, e, a, TRUE)
    \/ \E r \in Requests : FinishQuery(r)

SpecRequests == InitStore /\ [][NextRequests]_vars

\* ------------------------------------ UniversityDocumentBot: the claims

\* C8: after a query was answered by a generation call, the same query of
\* the same user, sent again within ttl and assembling the same context,
\* is served from the cache without a second generation call, whatever
\* string the first call returned.
SecondQueryHitsCache ==
    [][\A u \in BotUsers, q \in BotQueries :
        LET k == GenerateKey(q, op.context, u)
        IN (/\ op.name = "handle_message" /\ op.step = "answered"
            /\ op.user_id = u /\ op.query = q
            /\ ~op.is_cached
            /\ k \in DOMAIN cache
            /\ now - cache[k].timestamp <= TTL
            /\ now' = now
            /\ op'.name = "handle_message" /\ op'.step = "answered"
            /\ op'.user_id = u /\ op'.query = q
            /\ op'.context = op.context)
           => op'.is_cached]_vars

\* C29: an answered query took the steps route, search, context, cache
\* lookup, then generation and cache write exactly when the lookup yielded
\* no answer, then the two appends; and the user's history ends with the
\* query as a user turn and the delivered answer as an assistant turn.
PipelineOrder ==
    (op.name = "handle_message" /\ op.step = "answered") =>
        /\ op.steps = PipelineSteps(op.lookup = None)
        /\ LET log == history[op.user_id]
           IN /\ Len(log) >= 2
              /\ log[Len(log) - 1] = [role |-> "user", content |-> op.query]
              /\ log[Len(log)] = [role |-> "assistant", content |-> ret.value]

\* What holds of C29: the same with generation exactly when the lookup
\* gave None or the empty string.
PipelineOrderByTruth ==
    (op.name = "handle_message" /\ op.step = "answered") =>
        /\ op.steps = PipelineSteps(~IsCacheHit(op.lookup))
        /\ LET log == history[op.user_id]
           IN /\ Len(log) >= 2
              /\ log[Len(log) - 1] = [role |-> "user", content |-> op.query]
              /\ log[Len(log)] = [role |-> "assistant", content |-> ret.value]

\* Request r ran its try block to the end and delivered an answer.
Answered(r) == r \in DOMAIN inflight /\ inflight[r].pc \in {"answered", "done"}

\* One call at a time: no request begins while another has not ended, as
\* when the updates are processed sequentially.
Sequential ==
    \A r1 \in DOMAIN inflight, r2 \in DOMAIN inflight :
        r1 # r2 => (inflight[r1].pc = "done" \/ inflight[r2].pc = "done")

\* C30: of two answered requests for the same user, query and context, at
\* most one missed the cache.
NoDoubleMiss ==
    \A r1 \in Requests, r2 \in Requests :
        (/\ r1 # r2
         /\ Answered(r1) /\ Answered(r2)
         /\ inflight[r1].user_id = inflight[r2].user_id
         /\ inflight[r1].query = inflight[r2].query
         /\ inflight[r1].context = inflight[r2].context)
        => (inflight[r1].is_cached \/ inflight[r2].is_cached)

\* The double miss of C30 needs no interleaving: it is met with one call
\* at a time.
NoDoubleMissSequential ==
    [](Sequential) => [](NoDoubleMiss)

\* What holds of C30: the cache and the history change only in the step in
\* which one call runs its whole try block, lookup and both appends
\* included, so the steps of two calls are never interleaved.
PipelineIsAtomic ==
    [][(cache' # cache \/ history' # history) =>
          /\ op'.name = "handle_message" /\ op'.step = "answered"
          /\ LET log == history'[op'.user_id]
             IN /\ log[Len(log) - 1] = [role |-> "user", content |-> op'.query]
                /\ log[Len(log)] = [role |-> "assistant", content |-> ret'.value]]_vars

\* The cache key of the answered query that op records.
AnsweredKey(call) == GenerateKey(call.query, call.context, call.user_id)

\* The step is a run of handle_message that answered a query: only the
\* clock's steps change `now`, and every other handler leaves another op.
AnsweredStep ==
    now' = now /\ op'.name = "handle_message" /\ op'.step = "answered"

\* C37: an entry is written or changed only by the request that generated
\* its answer, with the time of that generation as its timestamp; a request
\* answered from the cache leaves the entry as it was and the entry is then
\* at most ttl old, so the answer served was generated at most ttl ago.
CachedAnswerAge ==
    [][/\ \A k \in DOMAIN cache' :
             (k \notin DOMAIN cache \/ cache'[k] # cache[k]) =>
                 /\ op'.name = "handle_message" /\ op'.step = "answered"
                 /\ ~op'.is_cached
                 /\ k = AnsweredKey(op')
                 /\ cache'[k].answer = ret'.value
                 /\ cache'[k].timestamp = now'
       /\ (AnsweredStep /\ op'.is_cached) =>
             /\ AnsweredKey(op') \in DOMAIN cache
             /\ cache'[AnsweredKey(op')] = cache[AnsweredKey(op')]
             /\ cache[AnsweredKey(op')].answer = ret'.value
             /\ now' - cache[AnsweredKey(op')].timestamp <= TTL]_vars

\* C37's case: an answer was served from an entry written one ttl earlier,
\* and the entry still carries the time it was written at.
CachedAnswerAgeWitness ==
    /\ op.name = "handle_message" /\ op.step = "answered" /\ op.is_cached
    /\ AnsweredKey(op) \in DOMAIN cache
    /\ now - cache[AnsweredKey(op)].timestamp = TTL

\* C38: a request that generates writes the string generate_answer
\* returned to the cache, a failure message as any other; and a request
\* that finds a failure message stored for its user, query and context, not
\* older than ttl, is answered with it from the cache without generation.
FailureMessageCached ==
    [][/\ (AnsweredStep /\ ~op'.is_cached) =>
             /\ AnsweredKey(op') \in DOMAIN cache'
             /\ cache'[AnsweredKey(op')].answer = ret'.value
       /\ (/\ AnsweredStep
           /\ AnsweredKey(op') \in DOMAIN cache
           /\ cache[AnsweredKey(op')].answer \in FailureMessages
           /\ now - cache[AnsweredKey(op')].timestamp <= TTL) =>
             /\ op'.is_cached
             /\ op'.steps = PipelineSteps(FALSE)
             /\ ret'.value = cache[AnsweredKey(op')].answer]_vars

\* C38's case: a failure message was served from the cache.
FailureMessageCachedWitness ==
    /\ op.name = "handle_message" /\ op.step = "answered" /\ op.is_cached
    /\ ret.value \in FailureMessages
    /\ cache[AnsweredKey(op)].answer = ret.value

\* C39: a text message of a user who is waiting for a document's text is
\* ingested under the title given to /add_doc and touches neither cache nor
\* history; it clears the user's flag whether or not the document was
\* stored; a text message of a user who is not waiting is handled as a
\* query and stores nothing; and no handler changes another user's flag or
\* title.
WaitingTextIsDocument ==
    [][/\ \A b \in Users :
             (b # op'.user_id) => user_data'[b] = user_data[b]
       /\ (op'.name = "handle_message"
              /\ user_data[op'.user_id].waiting_for_doc_text) =>
             /\ op'.step = "document"
             /\ ~user_data'[op'.user_id].waiting_for_doc_text
             /\ cache' = cache /\ history' = history
             /\ IF ret'.value
                THEN /\ Len(documents') = Len(documents) + 1
                     /\ LET doc == documents'[Len(documents')]
                        IN /\ doc.title = user_data[op'.user_id].doc_title
                           /\ doc.user_id = op'.user_id
                           /\ files'[doc.text_file] = op'.query
                ELSE documents' = documents
       /\ (op'.name = "handle_message"
              /\ ~user_data[op'.user_id].waiting_for_doc_text) =>
             /\ op'.step \in {"raised", "no_documents", "nothing_found",
                              "answered"}
             /\ ~user_data'[op'.user_id].waiting_for_doc_text
             /\ documents' = documents /\ files' = files]_vars

\* C39's case: a user's awaited text was not stored, the user's flag is
\* cleared all the same, and the other user is still waiting.
WaitingTextIsDocumentWitness ==
    /\ op.name = "handle_message" /\ op.step = "document"
    /\ ret = Returned(FALSE)
    /\ ~user_data[op.user_id].waiting_for_doc_text
    /\ \E b \in Users \ {op.user_id} : user_data[b].waiting_for_doc_text

\* The user's own documents, whatever user_index says.
OwnDocuments(user_id) ==
    {i \in 1..Len(documents) : documents[i].user_id = user_id}

SecondQueryHitsCacheNonEmpty ==
    [][\A u \in BotUsers, q \in BotQueries :
        LET k == GenerateKey(q, op.context, u)
        IN (/\ op.name = "handle_message" /\ op.step = "answered"
            /\ op.user_id = u /\ op.query = q
            /\ ~op.is_cached
            /\ ret # Returned("")
            /\ k \in DOMAIN cache
            /\ now - cache[k].timestamp <= TTL
            /\ now' = now
            /\ op'.name = "handle_message" /\ op'.step = "answered"
            /\ op'.user_id = u /\ op'.query = q
            /\ op'.context = op.context)
           => op'.is_cached /\ ret' = ret]_vars

\* ------------------------------------------- DocumentStore: the claims

\* user_index[u] as a list, empty when u has no key.
IndexOf(index, u) == IF u \in DOMAIN index THEN index[u] ELSE <<>>

\* The per-user index is the one a rebuild would produce.
IndexConsistent == user_index = BuildUserIndex(documents)

\* C1: a search by one user never returns a result built from a document
\* of another user.
OwnershipIsolation ==
    op.name = "search_documents" =>
        \A k \in 1..Len(ret.value) : ret.value[k].owner = op.user_id

\* C2: after any sequence of add_document and delete_document calls the
\* index of every user is the ascending list of the positions of the
\* documents it owns, as _build_user_index would produce it.
IndexNeverDrifts == IndexConsistent

\* C3: from a consistent index, a successful delete_document(d, u) for a
\* user with n documents leaves u's index with n-1 entries, each the
\* position of a document of u, and get_user_documents(u) returns the
\* previous list without the deleted document, in the same order.
DeletionIndexIntegrity ==
    [][\A u \in Users, d \in 1..MaxIds :
        (/\ op' = [name |-> "delete_document", user_id |-> u, id |-> d]
         /\ ret' = Returned(TRUE)
         /\ IndexConsistent)
        => LET before == GetUserDocuments(u).value
               Kept(x) == x.id # d
               idx == IndexOf(user_index', u)
           IN /\ Len(idx) = Len(IndexOf(user_index, u)) - 1
              /\ \A k \in 1..Len(idx) :
                     /\ idx[k] \in 1..Len(documents')
                     /\ documents'[idx[k]].user_id = u
              /\ \E k \in 1..Len(before) : before[k].id = d
              /\ UserDocuments(documents', user_index', u) = Returned(SelectSeq(before, Kept))]_vars

\* C18: an add_document whose embedding came back empty returns False and
\* leaves the document list, the index, metadata.json and the text files as
\* they were.
FailedAddChangesNothing ==
    [][(op'.name = "add_document" /\ op'.embedding = NoEmbedding)
        => /\ ret' = Returned(FALSE)
           /\ UNCHANGED <<documents, user_index, metadata, files>>]_vars

\* C18's case: an add_document with an empty embedding has returned, in a
\* store that holds a document.
FailedAddWitness ==
    /\ op.name = "add_document"
    /\ op.embedding = NoEmbedding
    /\ ret = Returned(FALSE)
    /\ Len(documents) = 1

\* The index of this user is the one a rebuild would produce.
UserIndexConsistent(u) == IndexOf(user_index, u) = PositionsOf(documents, 1, u)

\* The position in the list of the document a result was built from.
PositionOfResult(r) == CHOOSE i \in 1..Len(documents) : documents[i].id = r.doc_id

\* C19: for a user whose index is consistent, a search with a query
\* embedding returns results built from distinct documents of the user,
\* each with its cosine similarity, none below the threshold; they are in
\* descending similarity, equal ones in insertion order; there are
\* min(top_k, number of qualifying documents) of them, and every
\* qualifying document left out ranks after every result.
SearchOrdering ==
    (/\ op.name = "search_documents"
     /\ op.query_embedding # NoEmbedding
     /\ UserIndexConsistent(op.user_id))
    => LET r == ret.value
           u == op.user_id
           Sim(i) == CosineSimilarity(op.query_embedding, documents[i].embedding)
           qualifying == {i \in 1..Len(documents) :
                             /\ documents[i].user_id = u
                             /\ FracGE(Sim(i), op.similarity_threshold)}
           returned == {PositionOfResult(r[k]) : k \in 1..Len(r)}
       IN /\ \A k \in 1..Len(r) :
                /\ \E i \in qualifying : documents[i].id = r[k].doc_id
                /\ r[k].similarity = Sim(PositionOfResult(r[k]))
                /\ r[k].title = documents[PositionOfResult(r[k])].title
                /\ FracGE(r[k].similarity, op.similarity_threshold)
          /\ \A j, k \in 1..Len(r) :
                j < k => \/ FracGT(r[j].similarity, r[k].similarity)
                         \/ /\ FracEQ(r[j].similarity, r[k].similarity)
                            /\ PositionOfResult(r[j]) < PositionOfResult(r[k])
          /\ Len(r) <= op.top_k
          /\ Len(r) = Min(op.top_k, Cardinality(qualifying))
          /\ \A i \in qualifying \ returned : \A k \in 1..Len(r) :
                \/ FracGT(r[k].similarity, Sim(i))
                \/ /\ FracEQ(r[k].similarity, Sim(i))
                   /\ PositionOfResult(r[k]) < i

\* C19's case: two documents of the user tie, and both are returned.
SearchOrderingWitness ==
    /\ op.name = "search_documents"
    /\ UserIndexConsistent(op.user_id)
    /\ Len(ret.value) = 2
    /\ FracEQ(ret.value[1].similarity, ret.value[2].similarity)

\* The user owns no document of the list.
OwnsNothing(u) == \A i \in 1..Len(documents) : documents[i].user_id # u

\* C20: a search by a user who has no documents, or whose query embedding
\* came back empty, returns the empty list, raises nothing and leaves the
\* store as it was.
SearchEmptyCases ==
    [][\A u \in Users :
        (/\ op'.name = "search_documents" /\ op'.user_id = u
         /\ (OwnsNothing(u) \/ op'.query_embedding = NoEmbedding))
        => /\ ret' = Returned(<<>>)
           /\ UNCHANGED storeVars]_vars

\* C21: each result of a search is built from the candidate of the same
\* rank, whatever the state of the text files; its full_text is the stored
\* body when the file exists and can be read, and the summary otherwise.
HydrationFallsBack ==
    op.name = "search_documents" =>
        LET ranked == Ranked(op.user_id, op.query_embedding, op.top_k,
                             op.similarity_threshold)
        IN /\ "value" \in DOMAIN ret
           /\ Len(ret.value) = Len(ranked)
           /\ \A k \in 1..Len(ranked) :
                 LET doc == ranked[k].doc
                     readable == /\ doc.text_file \in DOMAIN files
                                 /\ files[doc.text_file] # Unreadable
                 IN /\ ret.value[k].doc_id = doc.id
                    /\ readable => ret.value[k].full_text = files[doc.text_file]
                    /\ ~readable => ret.value[k].full_text = doc.summary

\* C21's case: a search returned two results, one from a document whose
\* file is gone or unreadable, one from a document whose file was read.
HydrationWitness ==
    /\ op.name = "search_documents"
    /\ Len(ret.value) = 2
    /\ \E j, k \in 1..2 :
          /\ ret.value[j].full_text = ret.value[j].summary
          /\ ret.value[k].full_text \in Texts

\* C22: a delete_document(d, u) with no record of id d owned by u returns
\* False and leaves the document list, every index, metadata.json and the
\* text files as they were; a delete that returns True removed exactly such
\* a record.
DeleteVerifiesOwnership ==
    [][\A u \in Users, d \in 1..MaxIds :
        (op' = [name |-> "delete_document", user_id |-> u, id |-> d])
        => LET owned == \E i \in 1..Len(documents) :
                            documents[i].id = d /\ documents[i].user_id = u
           IN /\ ~owned => /\ ret' = Returned(FALSE)
                           /\ UNCHANGED <<documents, user_index, metadata, files>>
              /\ owned => /\ ret' = Returned(TRUE)
                          /\ Len(documents') = Len(documents) - 1
                          /\ \A i \in 1..Len(documents') : documents'[i].id # d]_vars

\* C22's case: a user asked to delete a document that exists and belongs
\* to another user, and got False.
DeleteForeignWitness ==
    /\ op.name = "delete_document"
    /\ ret = Returned(FALSE)
    /\ \E i \in 1..Len(documents) :
          documents[i].id = op.id /\ documents[i].user_id # op.user_id

\* C25 (documents): an add_document or delete_document call by one user
\* leaves what get_user_documents gives every other user as it was: the
\* same documents in the same order, and no error.
UserDocumentsIndependent ==
    [][\A a \in Users, b \in Users :
        (a # b /\ op'.name \in {"add_document", "delete_document"}
               /\ op'.user_id = a)
        => UserDocuments(documents', user_index', b)
             = UserDocuments(documents, user_index, b)]_vars

\* C3's case: the first of two documents of one user has been deleted, so
\* the position of the second was renumbered.
DeletionWitness ==
    /\ op.name = "delete_document" /\ ret = Returned(TRUE) /\ op.id = 1
    /\ nextId = 3
    /\ Len(documents) = 1
    /\ documents[1].id = 2 /\ documents[1].user_id = op.user_id

\* -------------------------------------------- CacheManager: the claims

\* The entry under key is the one a set of (query, context, user_id) wrote.
EntryOf(key, query, context, user_id) ==
    /\ key \in DOMAIN cache
    /\ cache[key] # Corrupt
    /\ cache[key].query = query
    /\ cache[key].context = context
    /\ cache[key].user_id = user_id

\* C4: two triples (user_id, query, context) map to the same cache entry
\* if and only if they are the same triple, also when query or context
\* hold the separator ":".
CacheIdentity ==
    \A k \in DOMAIN cache :
        cache[k] # Corrupt =>
            \A u \in Users, q \in Queries, c \in Contexts :
                (GenerateKey(q, c, u) = k)
                    <=> (u = cache[k].user_id /\ q = cache[k].query
                         /\ c = cache[k].context)

\* C5: get returns the stored answer while now - timestamp <= ttl; once
\* now - timestamp > ttl it returns None and removes the entry; and a get
\* of a key with no entry returns None, so the key stays absent until a
\* new set.
ExpiryOnRead ==
    [][\A q \in Queries, c \in Contexts, u \in Users :
        CacheGet(q, c, u) =>
            LET k == GenerateKey(q, c, u)
            IN IF k \notin DOMAIN cache
               THEN ret' = None /\ k \notin DOMAIN cache'
               ELSE IF cache[k] = Corrupt THEN TRUE
               ELSE IF now - Timestamp(cache[k]) <= TTL
                    THEN ret' = Returned(cache[k].answer)
                    ELSE ret' = None /\ k \notin DOMAIN cache']_vars

\* C5's case: a get found its entry older than ttl and removed it.
ExpiryWitness ==
    /\ op.name = "get" /\ op.log = "expired"
    /\ ret = None
    /\ GenerateKey(op.query, op.context, op.user_id) \notin DOMAIN cache

\* C6: a get of (query, context, user) that follows a successful
\* set(query, context, user, a), with no call in between and no more than
\* ttl elapsed, returns exactly a.
ReadAfterWrite ==
    [][\A q \in Queries, c \in Contexts, u \in Users :
        (/\ op.name = "set"
         /\ ret = Returned(TRUE)
         /\ op.query = q /\ op.context = c /\ op.user_id = u
         /\ now - op.time <= TTL
         /\ CacheGet(q, c, u))
        => ret' = Returned(op.answer)]_vars

\* C6's case: a get returned the answer of a set made at this instant,
\* after the clock had advanced.
ReadAfterWriteWitness ==
    /\ op.name = "get" /\ op.log = "found"
    /\ now > StartTime
    /\ LET k == GenerateKey(op.query, op.context, op.user_id)
       IN /\ EntryOf(k, op.query, op.context, op.user_id)
          /\ cache[k].timestamp = now
          /\ ret = Returned(cache[k].answer)

\* C7: with the cache holding only the entry of (u, q, c), a get of
\* (u, q, c2) for another context c2 returns None.
ContextIsPartOfKey ==
    [][\A q \in Queries, c \in Contexts, c2 \in Contexts, u \in Users :
        (/\ c2 # c
         /\ DOMAIN cache = {GenerateKey(q, c, u)}
         /\ EntryOf(GenerateKey(q, c, u), q, c, u)
         /\ CacheGet(q, c2, u))
        => ret' = None]_vars

\* C7's case: a get for another context missed while the entry of the same
\* user and query, not expired, was the only one in the cache.
ContextWitness ==
    /\ op.name = "get" /\ ret = None
    /\ \E c \in Contexts \ {op.context} :
          LET k == GenerateKey(op.query, c, op.user_id)
          IN /\ DOMAIN cache = {k}
             /\ EntryOf(k, op.query, c, op.user_id)
             /\ ~Expired(Timestamp(cache[k]), now)

\* C26: a get whose cache file cannot be parsed, or holds an object with no
\* timestamp, returns None without raising, and the file is gone afterwards.
BadEntryIsAbsent ==
    [][\A q \in Queries, c \in Contexts, u \in CacheUsers :
        LET k == GenerateKey(q, c, u)
        IN (/\ CacheGet(q, c, u)
            /\ k \in DOMAIN cache
            /\ (cache[k] = Corrupt \/ "timestamp" \notin DOMAIN cache[k]))
           => (ret' = None /\ k \notin DOMAIN cache')]_vars

\* C26's case: a get read a parseable entry without timestamp, returned
\* None and removed the file.
BadEntryWitness ==
    /\ op.name = "get"
    /\ op.read = "no_timestamp"
    /\ ret = None
    /\ GenerateKey(op.query, op.context, op.user_id) \notin DOMAIN cache

\* The other case of C26: a get could not parse the file, returned None and
\* removed it.
CorruptEntryWitness ==
    /\ op.name = "get" /\ op.log = "error"
    /\ op.read = "unparseable"
    /\ ret = None
    /\ GenerateKey(op.query, op.context, op.user_id) \notin DOMAIN cache

\* C27: a successful set puts its answer and the current time under its
\* key, whatever was there, and leaves the entry of every other key as it
\* was; a get that follows it within ttl of this set returns its answer,
\* however old the replaced entry was.
SetOverwrites ==
    [][\A q \in Queries, c \in Contexts, u \in CacheUsers :
        LET k == GenerateKey(q, c, u)
        IN /\ \A a \in Answers :
                CacheSet(q, c, u, a, TRUE) =>
                    /\ cache'[k] = CacheData(q, c, u, a, now)
                    /\ DOMAIN cache' = DOMAIN cache \cup {k}
                    /\ \A j \in DOMAIN cache \ {k} : cache'[j] = cache[j]
           /\ (/\ op.name = "set" /\ ret = Returned(TRUE)
               /\ op.query = q /\ op.context = c /\ op.user_id = u
               /\ op.replaced # None
               /\ now - op.time <= TTL
               /\ CacheGet(q, c, u))
              => ret' = Returned(op.answer)]_vars

\* C27's case: a set replaced an older entry holding another answer while
\* another key had an entry, and the clock then advanced within ttl.
SetOverwritesWitness ==
    /\ op.name = "set" /\ ret = Returned(TRUE)
    /\ op.replaced # None /\ op.replaced # Corrupt
    /\ "timestamp" \in DOMAIN op.replaced
    /\ op.replaced.answer # op.answer
    /\ op.replaced.timestamp < op.time
    /\ now > op.time /\ now - op.time <= TTL
    /\ Cardinality(DOMAIN cache) > 1

====
